---- MODULE Spec2Model ----
(***************************************************************************)
(* Automation engine of VRC Event Creator (src/unnamed/part_002).          *)
(*                                                                         *)
(* Time is in milliseconds.  Instants that the code keeps as ISO strings   *)
(* (eventStartsAt, scheduledPublishTime, lockUntil, ...) are kept as their *)
(* epoch millis; NoTime stands for null / undefined / unparsable.          *)
(* A pending-event id "pending_<group>_<profile>_<millis>" is the tuple    *)
(* <<group, profile, millis>>; NoKey stands for null.                      *)
(* The stamps missedAt, queuedAt and deletedAt are written by the engine   *)
(* and never read by it: a record keeps whether each of them is set.       *)
(* profileState.lastEventId, written and never read, is left out.          *)
(* The file of pending events is read at start only; it is kept for the    *)
(* start of the engine (initializeAutomation) and not followed afterwards. *)
(*                                                                         *)
(* Pending events are JavaScript objects that timers and in-flight         *)
(* publish calls hold by reference, so they live in a heap (objs) and the  *)
(* pending list, the deleted pool, the timers and the processor runs hold  *)
(* object references.                                                      *)
(***************************************************************************)
EXTENDS Integers, Sequences, FiniteSets, TLC

VARIABLES
  now,              \* Date.now()
  profilesRef,      \* profilesRef[groupId].profiles[profileKey], keyed by <<g, p>>
  objs,             \* heap of pending-event objects
  pendingEvents,    \* let pendingEvents = []      (sequence of references)
  deletedEvents,    \* let deletedEvents = []      (sequence of references)
  automationState,  \* automationState.profiles, keyed by <<g, p>>
  timers,           \* live setTimeout handles of scheduleJob / scheduleRetry
  groups,           \* rateLimitState.groups
  queue,            \* rateLimitState.queue
  processing,       \* rateLimitState.processing
  processTimeout,   \* rateLimitState.processTimeout (due instant, or NoTime)
  runs,             \* suspended processQueue() invocations (at an await)
  succeeded,        \* history: slot keys, and targets, profiles and starts, for
                    \* which createEventFn returned ok
  streak,           \* history: per group, rate-limit errors since the last success
  calls,            \* history: how many calls of the control API have been made
  lastOp,           \* history: the call of the control API the last step made
  disk,             \* the document in the file at PENDING_EVENTS_PATH
  initialized,      \* let initialized = false
  initMissed        \* history: ids initializeAutomation passed to onMissedEvent

vars == <<now, profilesRef, objs, pendingEvents, deletedEvents, automationState,
          timers, groups, queue, processing, processTimeout, runs, succeeded,
          streak, calls, lastOp, disk, initialized, initMissed>>

----------------------------------------------------------------------------
(* Bounds of the model *)

MaxTicks == 3
MaxObjs == 4
MaxCalls == 3

(* Program constants *)

EVENT_HOURLY_LIMIT == 10
MINUTE == 60 * 1000
EVENT_HOURLY_WINDOW_MS == 60 * 60 * 1000
BACKOFF_SEQUENCE == <<2, 4, 8, 16, 32, 60>>
MIN_BUFFER_MS == 30 * 60 * 1000
RETRY_DELAY == 15 * 60 * 1000
ONE_DAY_MS == 24 * 60 * 60 * 1000
DEFAULT_DURATION_MS == 120 * 60 * 1000
RESCHEDULE_DELAY_MS == 5 * 60 * 1000
SPACING_MS == 100
POLL_MS == 1000
MAX_EVENTS == EVENT_HOURLY_LIMIT

NoTime == 0 - 1
NoKey == <<>>
NoEventId == <<>>

(* The world the model explores *)

TickMs == 15 * MINUTE
Groups == {"g1"}
ProfileKeys == {"p1"}
Profiles == Groups \X ProfileKeys

(* knownGroupIds as setKnownGroupIds leaves it when called with the groups *)
(* of the user                                                             *)
knownGroupIds == Groups
SlotTimes == {60 * MINUTE, 90 * MINUTE}
ObjIds == 1..MaxObjs

Min(S) == CHOOSE x \in S : \A y \in S : x <= y
MinOf(a, b) == IF a <= b THEN a ELSE b
MaxOf(a, b) == IF a >= b THEN a ELSE b
Range(f) == {f[i] : i \in DOMAIN f}

RECURSIVE SortedSeq(_)
SortedSeq(S) ==
  IF S = {} THEN <<>> ELSE LET m == Min(S) IN <<m>> \o SortedSeq(S \ {m})

----------------------------------------------------------------------------
(* Slot identity *)

(* Date.parse of an ISO string; start times are kept as the milliseconds   *)
(* the string stands for, and NoTime is both null and an unparseable value *)
parseEventStartMs(value) == IF value = NoTime THEN NoTime ELSE value

buildPendingEventId(groupId, profileKey, eventStartsAt) ==
  IF parseEventStartMs(eventStartsAt) = NoTime
  THEN NoKey
  ELSE <<groupId, profileKey, parseEventStartMs(eventStartsAt)>>

parsePendingEventIdStartMs(value) ==
  IF value = NoKey THEN NoTime ELSE value[Len(value)]

isDeterministicPendingId(value) == parsePendingEventIdStartMs(value) # NoTime

getPendingSlotStartMs(event) ==
  IF parsePendingEventIdStartMs(event.slotKey) # NoTime
  THEN parsePendingEventIdStartMs(event.slotKey)
  ELSE parsePendingEventIdStartMs(event.id)

getRestoreStartMs(event) ==
  LET slotStartMs == getPendingSlotStartMs(event)
      currentStartMs == parseEventStartMs(event.eventStartsAt)
  IN IF /\ slotStartMs # NoTime
        /\ currentStartMs # NoTime
        /\ slotStartMs # currentStartMs
        /\ event.manualOverrides.set
        /\ event.manualOverrides.eventStartsAt # NoTime
     THEN slotStartMs
     ELSE IF currentStartMs # NoTime THEN currentStartMs ELSE slotStartMs

derivePendingSlotKey(event) ==
  IF isDeterministicPendingId(event.id)
  THEN event.id
  ELSE buildPendingEventId(event.groupId, event.profileKey, event.eventStartsAt)

getPendingSlotKey(event) ==
  IF event.slotKey # NoKey THEN event.slotKey
  ELSE IF derivePendingSlotKey(event) # NoKey THEN derivePendingSlotKey(event)
  ELSE event.id

getPendingSlotKeys(event) ==
  {getPendingSlotKey(event),
   buildPendingEventId(event.groupId, event.profileKey, event.eventStartsAt)}
    \ {NoKey}

NoOverrides == [set |-> FALSE, eventStartsAt |-> NoTime, other |-> FALSE]

ACTIVE_PENDING_STATUSES == {"scheduled", "missed", "queued"}

----------------------------------------------------------------------------
(* The engine state as one record, so that a handler and the functions it  *)
(* calls compose as state transformers.  overflow says that the handler   *)
(* needed more heap cells than MaxObjs allows, and such a step is left out *)
(* of the model.                                                           *)

Here ==
  [now |-> now, profilesRef |-> profilesRef, objs |-> objs,
   pendingEvents |-> pendingEvents, deletedEvents |-> deletedEvents,
   automationState |-> automationState, timers |-> timers, groups |-> groups,
   queue |-> queue, processing |-> processing,
   processTimeout |-> processTimeout, runs |-> runs, succeeded |-> succeeded,
   streak |-> streak, calls |-> calls, overflow |-> FALSE]

Reachable(s) ==
  Range(s.pendingEvents) \cup Range(s.deletedEvents)
    \cup {t.obj : t \in s.timers}
    \cup {s.runs[i].obj : i \in {j \in DOMAIN s.runs : s.runs[j].stage # "spacing"}}

(* Objects no list, timer or suspended call refers to are garbage. *)
Collect(s) ==
  [s EXCEPT !.objs = [o \in (DOMAIN s.objs) \cap Reachable(s) |-> s.objs[o]]]

Commit(s) ==
  LET c == Collect(s)
  IN /\ ~c.overflow
     /\ now' = c.now
     /\ profilesRef' = c.profilesRef
     /\ objs' = c.objs
     /\ pendingEvents' = c.pendingEvents
     /\ deletedEvents' = c.deletedEvents
     /\ automationState' = c.automationState
     /\ timers' = c.timers
     /\ groups' = c.groups
     /\ queue' = c.queue
     /\ processing' = c.processing
     /\ processTimeout' = c.processTimeout
     /\ runs' = c.runs
     /\ succeeded' = c.succeeded
     /\ streak' = c.streak
     /\ calls' = c.calls

NoOp == [op |-> "none", ok |-> TRUE]

(* the document loadPendingEvents finds when there is no file *)
EmptyDocument == [events |-> <<>>, deletedEvents |-> <<>>]

(* a step of the engine itself: a timer callback or a resumed await *)
Engine(s) ==
  /\ initialized = TRUE
  /\ Commit(s)
  /\ lastOp' = NoOp
  /\ UNCHANGED <<disk, initialized, initMissed>>

(* a step that is a call of the control API, with the ok of its result *)
Control(s, op, ok) ==
  /\ initialized = TRUE
  /\ calls < MaxCalls
  /\ Commit([s EXCEPT !.calls = @ + 1])
  /\ lastOp' = [op |-> op, ok |-> ok]
  /\ UNCHANGED <<disk, initialized, initMissed>>

RemoveAt(seq, i) == SubSeq(seq, 1, i - 1) \o SubSeq(seq, i + 1, Len(seq))

(* pendingEvents.findIndex(e => e.id === id), 0 when there is none *)
findIndex(s, id) ==
  LET I == {i \in DOMAIN s.pendingEvents : s.objs[s.pendingEvents[i]].id = id}
  IN IF I = {} THEN 0 ELSE Min(I)

----------------------------------------------------------------------------
(* Rate-limit gate *)

pruneRateLimitHistory(s, groupId) ==
  LET cutoff == s.now - EVENT_HOURLY_WINDOW_MS
      keep(ts) == ts >= cutoff
  IN [s EXCEPT !.groups[groupId].history = SelectSeq(@, keep)]

LockActive(s, groupId) ==
  /\ s.groups[groupId].lockUntil # NoTime
  /\ s.now < s.groups[groupId].lockUntil

(* the state isGroupRateLimited leaves behind: an expired lock is cleared  *)
(* with the backoff index, and the history is pruned                       *)
afterIsGroupRateLimited(s, groupId) ==
  IF LockActive(s, groupId)
  THEN s
  ELSE LET cleared ==
             IF s.groups[groupId].lockUntil # NoTime
             THEN [s EXCEPT !.groups[groupId].lockUntil = NoTime,
                            !.groups[groupId].backoffIndex = 0]
             ELSE s
       IN pruneRateLimitHistory(cleared, groupId)

(* a variant of isGroupRateLimited that looks at the lock only *)
isGroupRateLimitedByLockOnly(s, groupId) == LockActive(s, groupId)

isGroupRateLimited(s, groupId) ==
  \/ LockActive(s, groupId)
  \/ Len(afterIsGroupRateLimited(s, groupId).groups[groupId].history)
       >= EVENT_HOURLY_LIMIT

getRateLimitWaitMs(s, groupId) ==
  IF s.groups[groupId].lockUntil # NoTime
  THEN MaxOf(0, s.groups[groupId].lockUntil - s.now)
  ELSE LET h == pruneRateLimitHistory(s, groupId).groups[groupId].history
       IN IF Len(h) >= EVENT_HOURLY_LIMIT
          THEN MaxOf(0, Min(Range(h)) + EVENT_HOURLY_WINDOW_MS - s.now)
          ELSE 0

recordEventCreation(s, groupId) ==
  LET pushed == [s EXCEPT !.groups[groupId].history = Append(@, s.now)]
  IN [pruneRateLimitHistory(pushed, groupId)
        EXCEPT !.groups[groupId].backoffIndex = 0]

handleRateLimitError(s, groupId) ==
  LET p == pruneRateLimitHistory(s, groupId)
      h == p.groups[groupId].history
      idx == p.groups[groupId].backoffIndex
  IN IF Len(h) >= EVENT_HOURLY_LIMIT
     THEN [p EXCEPT !.groups[groupId].lockUntil =
                       Min(Range(h)) + EVENT_HOURLY_WINDOW_MS]
     ELSE [p EXCEPT !.groups[groupId].backoffIndex =
                       MinOf(idx + 1, Len(BACKOFF_SEQUENCE) - 1),
                    !.groups[groupId].lockUntil =
                       p.now + BACKOFF_SEQUENCE[idx + 1] * 60 * 1000]

----------------------------------------------------------------------------
(* Scheduler *)

(* the recheck of an earlier version: hourly while more than a day away *)
getRecheckIntervalMsHourly(delayMs) ==
  IF delayMs > ONE_DAY_MS THEN 60 * 60 * 1000 ELSE 0

getRecheckIntervalMs(delayMs) ==
  IF delayMs > 7 * ONE_DAY_MS THEN ONE_DAY_MS
  ELSE IF delayMs > 2 * ONE_DAY_MS THEN 8 * 60 * 60 * 1000
  ELSE IF delayMs > ONE_DAY_MS THEN 2 * 60 * 60 * 1000
  ELSE 0

(* setTimeout + scheduledJobs.set(event.id, handle): the handle the map    *)
(* held for that id is overwritten, not cleared, so its timer stays live   *)
(* but can no longer be cancelled (cur = FALSE).                           *)
setJobTimer(s, kind, o, due) ==
  LET key == s.objs[o].id
      demote(t) == IF t.cur /\ s.objs[t.obj].id = key
                   THEN [t EXCEPT !.cur = FALSE] ELSE t
  IN [s EXCEPT !.timers = {demote(t) : t \in s.timers}
                            \cup {[kind |-> kind, obj |-> o, due |-> due, cur |-> TRUE]}]

scheduleJob(s, o) ==
  LET delay == s.objs[o].scheduledPublishTime - s.now
  IN IF delay <= 0
     THEN [s EXCEPT !.objs[o].status = "missed", !.objs[o].missedAt = TRUE]
     ELSE IF getRecheckIntervalMs(delay) # 0
          THEN setJobTimer(s, "recheck", o, s.now + getRecheckIntervalMs(delay))
          ELSE setJobTimer(s, "exec", o, s.now + delay)

(* a retry that waits a day instead of RETRY_DELAY *)
scheduleRetryAfterDay(s, o) == setJobTimer(s, "retry", o, s.now + ONE_DAY_MS)

scheduleRetry(s, o) == setJobTimer(s, "retry", o, s.now + RETRY_DELAY)

dequeueEventPost(s, id) ==
  LET I == {i \in DOMAIN s.queue : s.queue[i].pendingEventId = id}
  IN IF I = {} THEN s ELSE [s EXCEPT !.queue = RemoveAt(@, Min(I))]

cancelJob(s, id) ==
  dequeueEventPost(
    [s EXCEPT !.timers = {t \in @ : ~(t.cur /\ s.objs[t.obj].id = id)}], id)

----------------------------------------------------------------------------
(* Queue processor and publish worker *)

(* queue.push(item); queue.sort((a, b) => a.priority - b.priority), the    *)
(* sort being stable                                                       *)
SortedInsert(q, item) ==
  LET before == {i \in DOMAIN q : q[i].priority <= item.priority}
      k == Cardinality(before)
  IN SubSeq(q, 1, k) \o <<item>> \o SubSeq(q, k + 1, Len(q))

(* A suspended processQueue() is at its 100 ms wait or at the await of     *)
(* createEventFn; limited records, for the history, whether the target was *)
(* locked or had used up its hourly window when createEventFn was called,  *)
(* and start the startTime the call was made with.                         *)
SpacingRun(s) ==
  [stage |-> "spacing", obj |-> 0, due |-> s.now + SPACING_MS, limited |-> FALSE,
   start |-> NoTime]

PublishRun(s, o) ==
  LET g == s.groups[s.objs[o].groupId]
      inWindow(ts) == ts >= s.now - EVENT_HOURLY_WINDOW_MS
  IN [stage |-> "publish", obj |-> o, due |-> NoTime,
      start |-> s.objs[o].eventStartsAt,
      limited |-> \/ (g.lockUntil # NoTime /\ s.now < g.lockUntil)
                  \/ Len(SelectSeq(g.history, inWindow)) >= EVENT_HOURLY_LIMIT]

(* details resolved whatever has become of the profile *)
resolveEventDetailsOfAnyProfile(s, id) == findIndex(s, id) # 0

(* resolveEventDetails(id) is null when no pending event has the id or its *)
(* profile is gone                                                         *)
resolveEventDetails(s, id) ==
  /\ findIndex(s, id) # 0
  /\ LET e == s.objs[s.pendingEvents[findIndex(s, id)]]
     IN s.profilesRef[<<e.groupId, e.profileKey>>].exists

(* executeAutomatedPostInternal up to its await of createEventFn; a run    *)
(* that does not reach the call goes on to the 100 ms spacing wait         *)
executeAutomatedPostInternal(s, o) ==
  IF ~resolveEventDetails(s, s.objs[o].id)
  THEN [s EXCEPT !.objs[o].status = "cancelled", !.runs = Append(@, SpacingRun(s))]
  ELSE [s EXCEPT !.runs = Append(@, PublishRun(s, o))]

(* the code after the loop of processQueue: finally, then the 1 s poll *)
processExit(s) ==
  LET done == [s EXCEPT !.processing = FALSE]
  IN IF Len(done.queue) > 0
     THEN [done EXCEPT !.processTimeout = done.now + POLL_MS]
     ELSE done

(* the while loop of processQueue, from its head to the next await *)
RECURSIVE processLoop(_)
processLoop(s) ==
  IF Len(s.queue) = 0
  THEN processExit(s)
  ELSE LET item == Head(s.queue)
           g == afterIsGroupRateLimited(s, item.groupId)
       IN IF isGroupRateLimited(s, item.groupId)
          THEN processExit(
                 [g EXCEPT !.processTimeout =
                              g.now + getRateLimitWaitMs(g, item.groupId) + SPACING_MS])
          ELSE LET shifted == [g EXCEPT !.queue = Tail(@)]
                   idx == findIndex(shifted, item.pendingEventId)
                   o == shifted.pendingEvents[idx]
               IN IF idx = 0
                  THEN processLoop(shifted)
                  ELSE IF shifted.objs[o].status \notin ACTIVE_PENDING_STATUSES
                  THEN processLoop(shifted)
                  ELSE executeAutomatedPostInternal(
                         IF shifted.objs[o].status = "queued"
                         THEN [shifted EXCEPT !.objs[o].status = "scheduled"]
                         ELSE shifted, o)

processQueue(s) ==
  IF s.processing \/ Len(s.queue) = 0
  THEN s
  ELSE processLoop([s EXCEPT !.processing = TRUE])

(* an enqueue that does not start the processor *)
queueEventPostWithoutStart(s, pendingEventId, groupId, priority) ==
  IF \E i \in DOMAIN s.queue : s.queue[i].pendingEventId = pendingEventId
  THEN s
  ELSE [s EXCEPT !.queue = SortedInsert(@,
          [pendingEventId |-> pendingEventId, groupId |-> groupId,
           priority |-> priority])]

queueEventPost(s, pendingEventId, groupId, priority) ==
  IF \E i \in DOMAIN s.queue : s.queue[i].pendingEventId = pendingEventId
  THEN s
  ELSE processQueue(
         [s EXCEPT !.queue = SortedInsert(@,
             [pendingEventId |-> pendingEventId, groupId |-> groupId,
              priority |-> priority])])

executeAutomatedPost(s, o) ==
  queueEventPost(s, s.objs[o].id, s.objs[o].groupId, s.objs[o].eventStartsAt)

getOrCreateProfileState(s, k) ==
  IF k \in DOMAIN s.automationState
  THEN s
  ELSE [s EXCEPT !.automationState =
          [x \in (DOMAIN @) \cup {k} |->
             IF x = k
             THEN [eventsCreated |-> 0, activationStartsAt |-> NoTime,
                   lastSuccess |-> NoTime]
             ELSE @[x]]]

getActivationStartMs(s, k) == parseEventStartMs(s.automationState[k].activationStartsAt)

(* history: createEventFn has created the event eventId for a target and  *)
(* profile                                                                *)
CreatedEvent(groupId, profileKey, eventId) == <<"created", groupId, profileKey, eventId>>

(* executeAutomatedPostInternal after createEventFn returned ok *)
onPublishOk(s, o, eventId) ==
  LET e == s.objs[o]
      k == <<e.groupId, e.profileKey>>
      rec == recordEventCreation(s, e.groupId)
      st == getOrCreateProfileState(rec, k)
  IN [st EXCEPT
        !.objs[o].eventId = IF eventId # NoEventId THEN eventId ELSE e.eventId,
        !.objs[o].status = "published",
        !.automationState[k].eventsCreated = @ + 1,
        !.automationState[k].activationStartsAt =
           IF getActivationStartMs(st, k) = NoTime /\ e.eventStartsAt # NoTime
           THEN e.eventStartsAt ELSE @,
        !.automationState[k].lastSuccess = s.now,
        !.succeeded = @ \cup getPendingSlotKeys(e)
                        \cup {CreatedEvent(e.groupId, e.profileKey, eventId)},
        !.streak[e.groupId] = 0]

(* ... after createEventFn returned a rate-limit error *)
onPublishRateLimit(s, o) ==
  LET e == s.objs[o]
      lim == handleRateLimitError(s, e.groupId)
      marked == [lim EXCEPT !.objs[o].status = "queued",
                            !.objs[o].queuedAt = TRUE,
                            !.streak[e.groupId] = @ + 1]
  IN queueEventPost(marked, e.id, e.groupId, e.eventStartsAt)

(* ... after createEventFn returned another error, or threw *)
onPublishError(s, o) == scheduleRetry(s, o)

----------------------------------------------------------------------------
(* Slot expansion and publish-time calculation *)

NoProfile ==
  [exists |-> FALSE, enabled |-> FALSE, timingMode |-> "before", offsetMs |-> 0,
   repeatMode |-> "indefinite", repeatCount |-> 0]

(* generateDateOptionsFromPatterns: the future slots of the pattern, in    *)
(* ascending order                                                         *)
generateDateOptionsFromPatterns(nowMs) ==
  SortedSeq({t \in SlotTimes : t > nowMs})

HardCap(publishTime, eventStartMs) ==
  IF publishTime > eventStartMs - MIN_BUFFER_MS
  THEN eventStartMs - MIN_BUFFER_MS
  ELSE publishTime

NewPendingEvent(groupId, profileKey, eventStartMs, publishTime) ==
  [id |-> buildPendingEventId(groupId, profileKey, eventStartMs),
   slotKey |-> buildPendingEventId(groupId, profileKey, eventStartMs),
   groupId |-> groupId,
   profileKey |-> profileKey,
   scheduledPublishTime |-> publishTime,
   eventStartsAt |-> eventStartMs,
   manualOverrides |-> NoOverrides,
   status |-> "scheduled",
   missedAt |-> FALSE,
   queuedAt |-> FALSE,
   deletedAt |-> FALSE,
   eventId |-> NoEventId]

(* the publish time calculatePendingEvents gives the slot that follows the *)
(* events acc it has generated so far (timing modes before and after)      *)
SlotPublishTime(s, profile, profileState, acc, eventStartMs) ==
  LET beforeTime == eventStartMs - profile.offsetMs
      prevStart == IF Len(acc) = 0 THEN NoTime ELSE acc[Len(acc)].eventStartsAt
      afterBase == IF Len(acc) = 0
                   THEN IF profileState.lastSuccess # NoTime
                        THEN profileState.lastSuccess ELSE s.now
                   ELSE prevStart
      afterTime == afterBase + DEFAULT_DURATION_MS + profile.offsetMs
      prevEventTime == IF Len(acc) = 0 THEN s.now ELSE prevStart
      pastMidpoint == 2 * afterTime > 2 * prevEventTime + (eventStartMs - prevEventTime)
  IN HardCap(IF profile.timingMode = "before" THEN beforeTime
             ELSE IF pastMidpoint THEN beforeTime ELSE afterTime,
             eventStartMs)

RECURSIVE ExpandSlots(_, _, _, _, _, _, _)
ExpandSlots(s, groupId, profileKey, profile, minEventStartMs, dateOptions, acc) ==
  LET profileState == s.automationState[<<groupId, profileKey>>]
  IN IF Len(dateOptions) = 0 \/ Len(acc) >= MAX_EVENTS
     THEN acc
     ELSE IF /\ profile.repeatMode = "count"
             /\ profileState.eventsCreated + Len(acc) + 1 > profile.repeatCount
     THEN acc
     ELSE LET eventStartMs == Head(dateOptions)
              publishTime == SlotPublishTime(s, profile, profileState, acc, eventStartMs)
              skip == \/ (minEventStartMs # NoTime /\ eventStartMs <= minEventStartMs)
                      \/ publishTime <= s.now
          IN ExpandSlots(s, groupId, profileKey, profile, minEventStartMs,
               Tail(dateOptions),
               IF skip THEN acc
               ELSE Append(acc, NewPendingEvent(groupId, profileKey,
                                                eventStartMs, publishTime)))

(* a variant of calculatePendingEvents that does not apply minEventStartMs *)
calculatePendingEventsIgnoringAnchor(s, groupId, profileKey, profile, minEventStartMs) ==
  IF ~profile.exists \/ ~profile.enabled
  THEN <<>>
  ELSE ExpandSlots(s, groupId, profileKey, profile, NoTime,
                   generateDateOptionsFromPatterns(s.now), <<>>)

(* calculatePendingEvents; the caller has created the profile state *)
calculatePendingEvents(s, groupId, profileKey, profile, minEventStartMs) ==
  IF ~profile.exists \/ ~profile.enabled
  THEN <<>>
  ELSE IF /\ profile.repeatMode = "count"
          /\ s.automationState[<<groupId, profileKey>>].eventsCreated >= profile.repeatCount
  THEN <<>>
  ELSE ExpandSlots(s, groupId, profileKey, profile, minEventStartMs,
                   generateDateOptionsFromPatterns(s.now), <<>>)

(* calculatePublishTime (timing modes before and after), NoTime for null *)
calculatePublishTime(eventStartsAt, profile) ==
  IF ~profile.exists \/ ~profile.enabled
  THEN NoTime
  ELSE HardCap(eventStartsAt - profile.offsetMs, eventStartsAt)

(* objects for a list of new event records, in the free heap cells *)
RECURSIVE Allocate(_, _, _)
Allocate(s, events, refs) ==
  IF Len(events) = 0
  THEN [s |-> s, refs |-> refs]
  ELSE IF ObjIds \ DOMAIN s.objs = {}
  THEN [s |-> [s EXCEPT !.overflow = TRUE], refs |-> refs]
  ELSE LET o == Min(ObjIds \ DOMAIN s.objs)
           grown == [x \in (DOMAIN s.objs) \cup {o} |->
                       IF x = o THEN Head(events) ELSE s.objs[x]]
       IN Allocate([s EXCEPT !.objs = grown], Tail(events), Append(refs, o))

RECURSIVE scheduleAll(_, _)
scheduleAll(s, refs) ==
  IF Len(refs) = 0 THEN s ELSE scheduleAll(scheduleJob(s, Head(refs)), Tail(refs))

RECURSIVE cancelAll(_, _)
cancelAll(s, ids) ==
  IF Len(ids) = 0 THEN s ELSE cancelAll(cancelJob(s, Head(ids)), Tail(ids))

(* refs.map(e => e.id) *)
IdsOf(s, refs) == [i \in DOMAIN refs |-> s.objs[refs[i]].id]

OfProfile(s, refs, groupId, profileKey) ==
  LET mine(o) == s.objs[o].groupId = groupId /\ s.objs[o].profileKey = profileKey
  IN SelectSeq(refs, mine)

SlotKeysOf(s, refset) == UNION {getPendingSlotKeys(s.objs[o]) : o \in refset}

getEarliestEventStartMs(s, refset) ==
  LET ms(o) == IF s.objs[o].eventStartsAt # NoTime THEN s.objs[o].eventStartsAt
               ELSE parsePendingEventIdStartMs(s.objs[o].id)
      all == {ms(o) : o \in refset} \ {NoTime, 0}
  IN IF all = {} THEN NoTime ELSE Min(all)

----------------------------------------------------------------------------
(* Control API *)

(* hasActivePendingEvents counting pending records of every status *)
hasAnyPendingEvents(s, groupId, profileKey) ==
  Len(OfProfile(s, s.pendingEvents, groupId, profileKey)) > 0

hasActivePendingEvents(s, groupId, profileKey) ==
  \E o \in Range(OfProfile(s, s.pendingEvents, groupId, profileKey)) :
    s.objs[o].status \in ACTIVE_PENDING_STATUSES

clearDeletedEventsForProfile(s, groupId, profileKey) ==
  LET other(o) == ~(s.objs[o].groupId = groupId /\ s.objs[o].profileKey = profileKey)
  IN [s EXCEPT !.deletedEvents = SelectSeq(@, other)]

clearProfileState(s, groupId, profileKey) ==
  [s EXCEPT !.automationState =
     [k \in (DOMAIN @) \ {<<groupId, profileKey>>} |-> @[k]]]

(* a variant of filterNewEvents without the check for published slots *)
filterNewEventsKeepingPublished(newEvents, modifiedEventSlots, deletedEventSlots, publishedEventSlots) ==
  LET fresh(e) == /\ getPendingSlotKey(e) \notin modifiedEventSlots
                  /\ getPendingSlotKey(e) \notin deletedEventSlots
  IN SelectSeq(newEvents, fresh)

(* newEvents.filter(...) of updatePendingEventsForProfile *)
(* a filter that does not look at the deleted slots *)
filterNewEventsKeepingDeleted(newEvents, modifiedEventSlots, deletedEventSlots, publishedEventSlots) ==
  LET fresh(e) == /\ getPendingSlotKey(e) \notin modifiedEventSlots
                  /\ getPendingSlotKey(e) \notin publishedEventSlots
  IN SelectSeq(newEvents, fresh)

filterNewEvents(newEvents, modifiedEventSlots, deletedEventSlots, publishedEventSlots) ==
  LET fresh(e) == /\ getPendingSlotKey(e) \notin modifiedEventSlots
                  /\ getPendingSlotKey(e) \notin deletedEventSlots
                  /\ getPendingSlotKey(e) \notin publishedEventSlots
  IN SelectSeq(newEvents, fresh)

isKnownGroupId(groupId) == groupId \in knownGroupIds

(* a groupId or profileKey that is missing: undefined, null or "" *)
NoGroup == ""

purgeProfilePendingEvents(s, groupId, profileKey) ==
  LET s1 == cancelAll(s, IdsOf(s, OfProfile(s, s.pendingEvents, groupId, profileKey)))
      other(o) == ~(s.objs[o].groupId = groupId /\ s.objs[o].profileKey = profileKey)
  IN IF groupId = NoGroup \/ profileKey = NoGroup THEN s
     ELSE clearProfileState(
            [s1 EXCEPT !.pendingEvents = SelectSeq(@, other),
                       !.deletedEvents = SelectSeq(@, other)],
            groupId, profileKey)

updatePendingEventsForProfile(s, groupId, profileKey, profile) ==
  LET k == <<groupId, profileKey>>
      s1 == getOrCreateProfileState(
              [s EXCEPT !.profilesRef = [x \in (DOMAIN @) \cup {k} |->
                                           IF x = k THEN profile ELSE @[x]]], k)
      existingEvents == OfProfile(s1, s1.pendingEvents, groupId, profileKey)
      modifiedEventSlots ==
        SlotKeysOf(s1, {o \in Range(existingEvents) : s1.objs[o].manualOverrides.set})
      publishedEventSlots ==
        SlotKeysOf(s1, {o \in Range(existingEvents) : s1.objs[o].status = "published"})
      deletedEventSlots ==
        SlotKeysOf(s1, Range(OfProfile(s1, s1.deletedEvents, groupId, profileKey)))
      auto(o) == ~s1.objs[o].manualOverrides.set
      s2 == cancelAll(s1, IdsOf(s1, SelectSeq(existingEvents, auto)))
      kept(o) == ~(/\ s2.objs[o].groupId = groupId
                   /\ s2.objs[o].profileKey = profileKey
                   /\ ~s2.objs[o].manualOverrides.set
                   /\ s2.objs[o].status # "published")
      s3 == [s2 EXCEPT !.pendingEvents = SelectSeq(@, kept)]
      hasExistingPending == Len(existingEvents) > 0
      stateAnchor == getActivationStartMs(s3, k)
      anchorMs == IF stateAnchor = NoTime /\ hasExistingPending
                  THEN getEarliestEventStartMs(s3, Range(existingEvents))
                  ELSE stateAnchor
      s4 == IF stateAnchor = NoTime /\ hasExistingPending /\ anchorMs # NoTime
            THEN [s3 EXCEPT !.automationState[k].activationStartsAt = anchorMs]
            ELSE s3
      newEvents == calculatePendingEvents(s4, groupId, profileKey, profile, anchorMs)
      filteredNewEvents == filterNewEvents(newEvents, modifiedEventSlots,
                                           deletedEventSlots, publishedEventSlots)
      alloc == Allocate(Collect(s4), filteredNewEvents, <<>>)
      s5 == [alloc.s EXCEPT !.pendingEvents = @ \o alloc.refs]
  IN IF ~isKnownGroupId(groupId) THEN purgeProfilePendingEvents(s, groupId, profileKey)
     ELSE IF ~profile.enabled THEN s3
     ELSE IF ~hasExistingPending /\ anchorMs = NoTime THEN s4
     ELSE scheduleAll(s5, alloc.refs)


(* recordManualEvent that takes every valid start time *)
recordManualEventAcceptsLater(s, groupId, profileKey, eventStartsAt) ==
  /\ isKnownGroupId(groupId)
  /\ parseEventStartMs(eventStartsAt) # NoTime

(* the value recordManualEvent returns *)
recordManualEventAccepts(s, groupId, profileKey, eventStartsAt) ==
  LET k == <<groupId, profileKey>>
      st == getOrCreateProfileState(s, k)
      existingStartMs == getActivationStartMs(st, k)
  IN /\ isKnownGroupId(groupId)
     /\ parseEventStartMs(eventStartsAt) # NoTime
     /\ ~(existingStartMs # NoTime /\ existingStartMs <= parseEventStartMs(eventStartsAt))

recordManualEvent(s, groupId, profileKey, eventStartsAt) ==
  LET k == <<groupId, profileKey>>
      st == getOrCreateProfileState(s, k)
  IN IF ~isKnownGroupId(groupId) THEN s
     ELSE IF parseEventStartMs(eventStartsAt) = NoTime THEN s
     ELSE IF recordManualEventAccepts(s, groupId, profileKey, eventStartsAt)
     THEN [st EXCEPT !.automationState[k].activationStartsAt =
                        parseEventStartMs(eventStartsAt)]
     ELSE st

(* the publish time updatePendingEventOverrides computes for a new start *)
OverridePublishTime(profile, event, newStart, previousEventStartsAt) ==
  IF profile.timingMode = "before"
  THEN newStart - profile.offsetMs
  ELSE newStart + (event.scheduledPublishTime - previousEventStartsAt)

updatePendingEventOverrides(s, pendingEventId, overrides) ==
  LET idx == findIndex(s, pendingEventId)
      o == s.pendingEvents[idx]
      e == s.objs[o]
      previousEventStartsAt == e.eventStartsAt
      s1 == [s EXCEPT
               !.objs[o].slotKey =
                  IF @ = NoKey /\ derivePendingSlotKey(e) # NoKey
                  THEN derivePendingSlotKey(e) ELSE @,
               !.objs[o].manualOverrides = overrides,
               !.objs[o].eventStartsAt =
                  IF overrides.eventStartsAt # NoTime THEN overrides.eventStartsAt ELSE @]
      profile == s.profilesRef[<<e.groupId, e.profileKey>>]
      newPublishTime ==
        OverridePublishTime(profile, e, overrides.eventStartsAt, previousEventStartsAt)
      s2 == [s1 EXCEPT !.objs[o].scheduledPublishTime = newPublishTime]
  IN IF idx = 0 THEN s
     ELSE IF ~(overrides.eventStartsAt # NoTime
               /\ overrides.eventStartsAt # previousEventStartsAt) THEN s1
     ELSE IF ~(profile.exists /\ profile.enabled) THEN s1
     ELSE IF newPublishTime <= s.now
     THEN cancelJob([s2 EXCEPT !.objs[o].status = "missed",
                               !.objs[o].missedAt = TRUE], pendingEventId)
     ELSE IF e.status = "missed"
     THEN scheduleJob([s2 EXCEPT !.objs[o].status = "scheduled",
                                 !.objs[o].missedAt = FALSE], o)
     ELSE scheduleJob(cancelJob(s2, pendingEventId), o)

(* handleMissedEvent, action "postNow" *)
PostNowRefused(status) == status = "queued"

handleMissedPostNow(s, o) ==
  IF PostNowRefused(s.objs[o].status)
  THEN s
  ELSE executeAutomatedPost([s EXCEPT !.objs[o].status = "scheduled"], o)

(* handleMissedEvent, action "reschedule" *)
ReschedulePublishTime(s, profile, event) ==
  IF profile.timingMode = "before"
  THEN IF event.eventStartsAt - profile.offsetMs <= s.now
       THEN s.now + RESCHEDULE_DELAY_MS
       ELSE event.eventStartsAt - profile.offsetMs
  ELSE s.now + RESCHEDULE_DELAY_MS

RescheduleRefused(s, o) ==
  LET profile == s.profilesRef[<<s.objs[o].groupId, s.objs[o].profileKey>>]
  IN ~profile.exists \/ ~profile.enabled

handleMissedReschedule(s, o) ==
  LET e == s.objs[o]
      profile == s.profilesRef[<<e.groupId, e.profileKey>>]
  IN IF RescheduleRefused(s, o)
     THEN s
     ELSE scheduleJob(
            [s EXCEPT !.objs[o].scheduledPublishTime = ReschedulePublishTime(s, profile, e),
                      !.objs[o].status = "scheduled",
                      !.objs[o].missedAt = FALSE], o)

(* handleMissedEvent, action "cancel" *)
handleMissedCancel(s, idx) ==
  LET o == s.pendingEvents[idx]
      e == s.objs[o]
      s1 == cancelJob(s, e.id)
      s2 == [s1 EXCEPT !.pendingEvents = RemoveAt(@, idx),
                       !.objs[o].status = "deleted",
                       !.objs[o].deletedAt = TRUE,
                       !.deletedEvents = Append(@, o)]
  IN IF ~hasActivePendingEvents(s2, e.groupId, e.profileKey)
     THEN clearProfileState(
            clearDeletedEventsForProfile(s2, e.groupId, e.profileKey),
            e.groupId, e.profileKey)
     ELSE s2

(* a reschedule that is refused only when the profile is gone *)
handleMissedRefusesWithoutProfile(s, pendingEventId, action) ==
  LET idx == findIndex(s, pendingEventId)
      o == s.pendingEvents[idx]
  IN \/ idx = 0
     \/ action \notin {"postNow", "reschedule", "cancel"}
     \/ action = "postNow" /\ PostNowRefused(s.objs[o].status)
     \/ /\ action = "reschedule"
        /\ ~s.profilesRef[<<s.objs[o].groupId, s.objs[o].profileKey>>].exists

(* handleMissedEvent(pendingEventId, action) returns ok: false *)
handleMissedRefuses(s, pendingEventId, action) ==
  LET idx == findIndex(s, pendingEventId)
      o == s.pendingEvents[idx]
  IN \/ idx = 0
     \/ action \notin {"postNow", "reschedule", "cancel"}
     \/ action = "postNow" /\ PostNowRefused(s.objs[o].status)
     \/ action = "reschedule" /\ RescheduleRefused(s, o)

handleMissedEvent(s, pendingEventId, action) ==
  LET idx == findIndex(s, pendingEventId)
      o == s.pendingEvents[idx]
  IN IF handleMissedRefuses(s, pendingEventId, action) THEN s
     ELSE IF action = "postNow" THEN handleMissedPostNow(s, o)
     ELSE IF action = "reschedule" THEN handleMissedReschedule(s, o)
     ELSE handleMissedCancel(s, idx)

cancelAllJobs(s) ==
  [s EXCEPT !.timers = {t \in @ : ~t.cur},
            !.queue = <<>>,
            !.processTimeout = NoTime,
            !.processing = FALSE]

(* RestoreSkips without the check against the modified slots *)
RestoreSkipsIgnoringModified(s, d, modifiedEventSlots, publishedEventSlots, anchorMs, profile) ==
  LET e == s.objs[d]
      restoreStartMs == getRestoreStartMs(e)
      newPublishTime == calculatePublishTime(restoreStartMs, profile)
  IN \/ getPendingSlotKeys(e) \cap publishedEventSlots # {}
     \/ restoreStartMs = NoTime
     \/ restoreStartMs <= s.now
     \/ (anchorMs # NoTime /\ restoreStartMs <= anchorMs)
     \/ newPublishTime = NoTime
     \/ newPublishTime <= s.now

(* the deleted entries restoreDeletedEvents passes over *)
RestoreSkips(s, d, modifiedEventSlots, publishedEventSlots, anchorMs, profile) ==
  LET e == s.objs[d]
      restoreStartMs == getRestoreStartMs(e)
      newPublishTime == calculatePublishTime(restoreStartMs, profile)
  IN \/ getPendingSlotKeys(e) \cap modifiedEventSlots # {}
     \/ getPendingSlotKeys(e) \cap publishedEventSlots # {}
     \/ restoreStartMs = NoTime
     \/ restoreStartMs <= s.now
     \/ (anchorMs # NoTime /\ restoreStartMs <= anchorMs)
     \/ newPublishTime = NoTime
     \/ newPublishTime <= s.now

(* one pass of the for loop of restoreDeletedEvents over a restorable entry *)
restoreOne(s, d, groupId, profileKey, profile) ==
  LET e == s.objs[d]
      restoreStartMs == getRestoreStartMs(e)
      newPublishTime == calculatePublishTime(restoreStartMs, profile)
      hasOverrides == /\ e.manualOverrides.set
                      /\ (e.manualOverrides.eventStartsAt # NoTime \/ e.manualOverrides.other)
      useOverrides == hasOverrides /\ parseEventStartMs(e.eventStartsAt) = restoreStartMs
      alloc == Allocate(s, <<NewPendingEvent(groupId, profileKey,
                                             restoreStartMs, newPublishTime)>>, <<>>)
      reused == [s EXCEPT !.objs[d].scheduledPublishTime = newPublishTime,
                          !.objs[d].status = "scheduled",
                          !.objs[d].missedAt = FALSE,
                          !.objs[d].deletedAt = FALSE,
                          !.objs[d].queuedAt = FALSE]
  IN IF useOverrides
     THEN scheduleJob([reused EXCEPT !.pendingEvents = Append(@, d)], d)
     ELSE IF alloc.s.overflow THEN alloc.s
     ELSE scheduleJob([alloc.s EXCEPT !.pendingEvents = Append(@, alloc.refs[1])],
                      alloc.refs[1])

RECURSIVE restoreLoop(_, _, _, _, _, _, _, _, _)
restoreLoop(s, todo, groupId, profileKey, profile, modifiedEventSlots, publishedEventSlots, anchorMs, toRemoveFromDeleted) ==
  IF Len(todo) = 0
  THEN LET stays(o) == o \notin toRemoveFromDeleted
       IN [s EXCEPT !.deletedEvents = SelectSeq(@, stays)]
  ELSE IF RestoreSkips(s, Head(todo), modifiedEventSlots, publishedEventSlots,
                       anchorMs, profile)
  THEN restoreLoop(s, Tail(todo), groupId, profileKey, profile,
                   modifiedEventSlots, publishedEventSlots, anchorMs,
                   toRemoveFromDeleted)
  ELSE restoreLoop(restoreOne(s, Head(todo), groupId, profileKey, profile),
                   Tail(todo), groupId, profileKey, profile,
                   modifiedEventSlots, publishedEventSlots, anchorMs,
                   toRemoveFromDeleted \cup {Head(todo)})

restoreDeletedEvents(s, groupId, profileKey) ==
  LET k == <<groupId, profileKey>>
      deletedForProfile == OfProfile(s, s.deletedEvents, groupId, profileKey)
      profile == s.profilesRef[k]
      s1 == getOrCreateProfileState(s, k)
      existingEvents == Range(OfProfile(s1, s1.pendingEvents, groupId, profileKey))
      modifiedEventSlots ==
        SlotKeysOf(s1, {o \in existingEvents : s1.objs[o].manualOverrides.set})
      publishedEventSlots ==
        SlotKeysOf(s1, {o \in existingEvents : s1.objs[o].status = "published"})
      stateAnchor == getActivationStartMs(s1, k)
      derived == IF getEarliestEventStartMs(s1, existingEvents) # NoTime
                 THEN getEarliestEventStartMs(s1, existingEvents)
                 ELSE getEarliestEventStartMs(s1, Range(deletedForProfile))
      anchorMs == IF stateAnchor = NoTime THEN derived ELSE stateAnchor
      s2 == IF stateAnchor = NoTime /\ anchorMs # NoTime
            THEN [s1 EXCEPT !.automationState[k].activationStartsAt = anchorMs]
            ELSE s1
  IN IF Len(deletedForProfile) = 0 THEN s
     ELSE IF ~profile.exists THEN s
     ELSE restoreLoop(s2, deletedForProfile, groupId, profileKey, profile,
                      modifiedEventSlots, publishedEventSlots, anchorMs, {})

(* Remote events are records [id, startsAtUtc, title]; the title the code  *)
(* expects for a record is that of its profile.                            *)
ProfileTitle == "name"

reconcileKeeps(s, o, upcomingEvents) ==
  LET e == s.objs[o]
      atStart(u) == u.startsAtUtc = e.eventStartsAt
      titled(u) == u.title = ProfileTitle
      candidates == SelectSeq(upcomingEvents, atStart)
      matching == SelectSeq(candidates, titled)
  IN IF e.eventId # NoEventId
     THEN e.eventId \in {upcomingEvents[i].id : i \in DOMAIN upcomingEvents}
     ELSE IF e.eventStartsAt = NoTime THEN TRUE
     ELSE IF Len(candidates) = 0 THEN FALSE
     ELSE IF Len(candidates) = 1 THEN TRUE
     ELSE resolveEventDetails(s, e.id) /\ Len(matching) = 1

(* reconcileEventId that takes the id from the start time of the record *)
reconcileEventIdByStart(s, o, upcomingEvents) ==
  LET e == s.objs[o]
      atStart(u) == u.startsAtUtc = e.eventStartsAt
      candidates == SelectSeq(upcomingEvents, atStart)
  IN IF e.eventId # NoEventId \/ e.eventStartsAt = NoTime \/ Len(candidates) = 0
     THEN e.eventId
     ELSE <<"evt", e.eventStartsAt>>

(* the eventId a kept record has after the call *)
reconcileEventId(s, o, upcomingEvents) ==
  LET e == s.objs[o]
      atStart(u) == u.startsAtUtc = e.eventStartsAt
      titled(u) == u.title = ProfileTitle
      candidates == SelectSeq(upcomingEvents, atStart)
      matching == SelectSeq(candidates, titled)
  IN IF e.eventId # NoEventId \/ e.eventStartsAt = NoTime \/ Len(candidates) = 0
     THEN e.eventId
     ELSE IF Len(candidates) = 1 THEN candidates[1].id
     ELSE IF resolveEventDetails(s, e.id) /\ Len(matching) = 1
     THEN matching[1].id
     ELSE e.eventId

(* Array.isArray(value): an array has the indices 1..length *)
isArray(value) == DOMAIN value = 1..Cardinality(DOMAIN value)

reconcilePublishedEvents(s, groupId, upcomingEvents) ==
  LET concerned(o) == s.objs[o].groupId = groupId /\ s.objs[o].status = "published"
      keeps(o) == ~concerned(o) \/ reconcileKeeps(s, o, upcomingEvents)
  IN IF groupId = NoGroup \/ ~isArray(upcomingEvents) THEN s
     ELSE [s EXCEPT
        !.pendingEvents = SelectSeq(@, keeps),
        !.objs = [o \in DOMAIN @ |->
                    IF o \in Range(s.pendingEvents) /\ concerned(o)
                       /\ reconcileKeeps(s, o, upcomingEvents)
                    THEN [@[o] EXCEPT !.eventId = reconcileEventId(s, o, upcomingEvents)]
                    ELSE @[o]]]

----------------------------------------------------------------------------
(* Load and normalisation of the stored document.  Stored records are      *)
(* values; NoRecord stands for the null a normaliser returns.              *)

VALID_PENDING_STATUSES ==
  {"scheduled", "missed", "queued", "published", "cancelled", "deleted"}

NoRecord == [status |-> "null"]

(* knownGroupIds is null, so every group is known *)
isKnownProfile(profiles, groupId, profileKey) == profiles[<<groupId, profileKey>>].exists

getPendingEventPriority(event) ==
  IF event.status = "published" THEN 100
  ELSE (IF event.manualOverrides.set THEN 50 ELSE 0)
       + (CASE event.status = "queued" -> 4
            [] event.status = "scheduled" -> 3
            [] event.status = "missed" -> 2
            [] OTHER -> 1)

(* getPendingSlotKeys as the array it is: primary key first *)
SlotKeyList(event) ==
  LET primary == getPendingSlotKey(event)
      current == buildPendingEventId(event.groupId, event.profileKey, event.eventStartsAt)
  IN (IF primary # NoKey THEN <<primary>> ELSE <<>>)
       \o (IF current # NoKey /\ current # primary THEN <<current>> ELSE <<>>)

(* the slot key and the id normalizeIdAndSlotKey leaves, given the key     *)
(* derivePendingSlotKey returned                                           *)
ApplyDerivedSlotKey(event, derivedSlotKey) ==
  IF derivedSlotKey = NoKey THEN event
  ELSE [event EXCEPT !.slotKey = derivedSlotKey,
                     !.id = IF isDeterministicPendingId(@) THEN @ ELSE derivedSlotKey]

normalizeIdAndSlotKey(event) == ApplyDerivedSlotKey(event, derivePendingSlotKey(event))

(* eventStartsAt taken from the override when the record has none *)
FillStart(event) ==
  IF event.eventStartsAt = NoTime /\ event.manualOverrides.eventStartsAt # NoTime
  THEN [event EXCEPT !.eventStartsAt = event.manualOverrides.eventStartsAt]
  ELSE event

(* normalizeDeletedEvent from its start-time check on *)
normalizeDeletedFilled(event, nowMs, profiles) ==
  IF ~isKnownProfile(profiles, event.groupId, event.profileKey) THEN NoRecord
  ELSE IF parseEventStartMs(event.eventStartsAt) = NoTime THEN NoRecord
  ELSE IF parseEventStartMs(event.eventStartsAt) <= nowMs THEN NoRecord
  ELSE normalizeIdAndSlotKey([event EXCEPT !.status = "deleted"])

normalizeDeletedEvent(raw, nowMs, profiles) ==
  normalizeDeletedFilled(FillStart(raw), nowMs, profiles)

(* an unknown status becomes scheduled *)
ValidStatus(event) ==
  IF event.status \in VALID_PENDING_STATUSES
  THEN event ELSE [event EXCEPT !.status = "scheduled"]

(* a missing publish time is computed from the profile *)
WithPublishTime(event, newPublishTime) ==
  IF /\ event.scheduledPublishTime = NoTime
     /\ event.status # "published"
     /\ newPublishTime # NoTime
  THEN [event EXCEPT !.scheduledPublishTime = newPublishTime]
  ELSE event

(* The result of normalizePendingEvent is the record it returns (NoRecord  *)
(* for null) with the record it pushes to normalizedDeleted (NoRecord for  *)
(* none).  This is its end, from the check of the publish time on.         *)
normalizeTimed(event) ==
  IF event.status # "published" /\ parseEventStartMs(event.scheduledPublishTime) = NoTime
  THEN [event |-> NoRecord, deleted |-> NoRecord]
  ELSE [event |-> normalizeIdAndSlotKey(event), deleted |-> NoRecord]

(* normalizePendingEvent once the start is filled in and the status valid; *)
(* neither changes what the two checks it makes before them find           *)
normalizeValid(event, nowMs, profiles) ==
  IF ~isKnownProfile(profiles, event.groupId, event.profileKey)
  THEN [event |-> NoRecord, deleted |-> NoRecord]
  ELSE IF parseEventStartMs(event.eventStartsAt) = NoTime
  THEN [event |-> NoRecord, deleted |-> NoRecord]
  ELSE IF event.status = "deleted"
  THEN [event |-> NoRecord, deleted |-> normalizeDeletedFilled(event, nowMs, profiles)]
  ELSE IF event.status = "cancelled"
  THEN [event |-> NoRecord, deleted |-> NoRecord]
  ELSE normalizeTimed(
         WithPublishTime(event,
           calculatePublishTime(event.eventStartsAt,
                                profiles[<<event.groupId, event.profileKey>>])))

normalizePendingEvent(raw, nowMs, profiles) ==
  normalizeValid(ValidStatus(FillStart(raw)), nowMs, profiles)

(* the records of a list that a normaliser did not turn into null *)
Kept(seq) == LET some(r) == r # NoRecord IN SelectSeq(seq, some)

(* One pass of the first dedup loop of normalizePendingStore for record i  *)
(* with keys slotKeys.  occupiedSlots maps a slot key to the index of the  *)
(* record that holds it, keptEvents is the Set in its insertion order.     *)
Occupy(occupiedSlots, slotKeys, i) ==
  [k \in (DOMAIN occupiedSlots) \cup Range(slotKeys) |->
     IF k \in Range(slotKeys) THEN i ELSE occupiedSlots[k]]

removeOccupiedByEvent(occupiedSlots, target) ==
  [k \in {x \in DOMAIN occupiedSlots : occupiedSlots[x] # target} |-> occupiedSlots[k]]

Without(keptEvents, target) == LET other(j) == j # target IN SelectSeq(keptEvents, other)

dedupeReplace(events, i, st, slotKeys, existing) ==
  IF getPendingEventPriority(events[i]) > getPendingEventPriority(events[existing])
  THEN [occupiedSlots |-> Occupy(removeOccupiedByEvent(st.occupiedSlots, existing), slotKeys, i),
        keptEvents |-> Append(Without(st.keptEvents, existing), i)]
  ELSE st

dedupeTaken(events, i, st, slotKeys, taken) ==
  IF taken = {}
  THEN [occupiedSlots |-> Occupy(st.occupiedSlots, slotKeys, i),
        keptEvents |-> Append(st.keptEvents, i)]
  ELSE dedupeReplace(events, i, st, slotKeys, st.occupiedSlots[slotKeys[Min(taken)]])

dedupeStep(events, i, st, slotKeys) ==
  IF Len(slotKeys) = 0 THEN st
  ELSE dedupeTaken(events, i, st, slotKeys,
                   {j \in DOMAIN slotKeys : slotKeys[j] \in DOMAIN st.occupiedSlots})

RECURSIVE dedupePending(_, _, _)
dedupePending(events, i, st) ==
  IF i > Len(events)
  THEN [j \in DOMAIN st.keptEvents |-> events[st.keptEvents[j]]]
  ELSE dedupePending(events, i + 1, dedupeStep(events, i, st, SlotKeyList(events[i])))

(* the second loop: deleted records that clash with no kept pending record *)
(* and with no deleted record kept before them                             *)
dedupeDeletedStep(event, st, slotKeys, pendingSlotKeys) ==
  IF slotKeys = {} THEN st
  ELSE IF slotKeys \cap pendingSlotKeys # {} THEN st
  ELSE IF slotKeys \cap st.deletedOccupied # {} THEN st
  ELSE [deletedOccupied |-> st.deletedOccupied \cup slotKeys,
        keptDeleted |-> Append(st.keptDeleted, event)]

RECURSIVE dedupeDeleted(_, _, _, _)
dedupeDeleted(deleted, i, st, pendingSlotKeys) ==
  IF i > Len(deleted)
  THEN st.keptDeleted
  ELSE dedupeDeleted(deleted, i + 1,
         dedupeDeletedStep(deleted[i], st, Range(SlotKeyList(deleted[i])), pendingSlotKeys),
         pendingSlotKeys)

SlotKeysOfList(events) == UNION {Range(SlotKeyList(events[i])) : i \in DOMAIN events}

(* the end of normalizePendingStore; its result changed is set exactly     *)
(* when a record is altered, dropped or moved, that is when the lists it   *)
(* leaves differ from the lists it found                                   *)
normalizedStore(events, deleted, dedupedPending, keptDeleted) ==
  [events |-> dedupedPending,
   deletedEvents |-> keptDeleted,
   changed |-> dedupedPending # events \/ keptDeleted # deleted]

dedupeStore(events, deleted, normalizedDeleted, dedupedPending) ==
  normalizedStore(events, deleted, dedupedPending,
    dedupeDeleted(normalizedDeleted, 1, [deletedOccupied |-> {}, keptDeleted |-> <<>>],
                  SlotKeysOfList(dedupedPending)))

normalizeLists(events, deleted, np, nd) ==
  dedupeStore(events, deleted,
    Kept([i \in DOMAIN np |-> np[i].deleted]) \o Kept(nd),
    dedupePending(Kept([i \in DOMAIN np |-> np[i].event]), 1,
                  [occupiedSlots |-> <<>>, keptEvents |-> <<>>]))

normalizePendingStore(events, deleted, nowMs, profiles) ==
  normalizeLists(events, deleted,
    [i \in DOMAIN events |-> normalizePendingEvent(events[i], nowMs, profiles)],
    [i \in DOMAIN deleted |-> normalizeDeletedEvent(deleted[i], nowMs, profiles)])

(* loadPendingEvents: the lists it leaves in memory and whether it saved *)
loadPendingEvents(document, nowMs, profiles) ==
  LET future(e) == e.eventStartsAt # NoTime /\ e.eventStartsAt > nowMs
  IN normalizePendingStore(document.events, SelectSeq(document.deletedEvents, future),
                           nowMs, profiles)

(* the first loop of initializeAutomation: overdue scheduled records are   *)
(* flipped to missed                                                       *)
markMissed(s) ==
  LET overdue(o) == /\ o \in Range(s.pendingEvents)
                    /\ s.objs[o].status = "scheduled"
                    /\ s.objs[o].scheduledPublishTime <= s.now
  IN [s EXCEPT !.objs = [o \in DOMAIN @ |->
                           IF overdue(o)
                           THEN [@[o] EXCEPT !.status = "missed", !.missedAt = TRUE]
                           ELSE @[o]]]

(* the second loop: a job for every record that is scheduled *)
scheduleLoaded(s) ==
  LET scheduled(o) == s.objs[o].status = "scheduled"
  IN scheduleAll(s, SelectSeq(s.pendingEvents, scheduled))

(* the lists of loadPendingEvents as objects in memory *)
intoMemory(pending, deleted) ==
  [deleted.s EXCEPT !.pendingEvents = pending.refs, !.deletedEvents = deleted.refs]

allocateDeleted(pending, loaded) ==
  intoMemory(pending, Allocate(pending.s, loaded.deletedEvents, <<>>))

(* initializeAutomation without its second loop *)
initializeWithoutJobs(s, loaded) ==
  markMissed(allocateDeleted(Allocate(s, loaded.events, <<>>), loaded))

(* initializeAutomation from the lists loadPendingEvents left *)
initializeAutomation(s, loaded) ==
  scheduleLoaded(markMissed(allocateDeleted(Allocate(s, loaded.events, <<>>), loaded)))

(* the ids initializeAutomation passes to onMissedEvent, in call order *)
missedAtInitialize(loaded, nowMs) ==
  LET overdue(e) == e.status = "scheduled" /\ e.scheduledPublishTime <= nowMs
      idOf(late) == [i \in DOMAIN late |-> late[i].id]
  IN idOf(SelectSeq(loaded.events, overdue))

(* savePendingEvents: the document written from the lists in memory *)
savePendingEvents(s) ==
  [events |-> [i \in DOMAIN s.pendingEvents |-> s.objs[s.pendingEvents[i]]],
   deletedEvents |-> [i \in DOMAIN s.deletedEvents |-> s.objs[s.deletedEvents[i]]]]

(* the file after initializeAutomation: written when the load normalised   *)
(* something, and again when a record was flipped to missed                *)
diskAfterInitialize(document, loaded, missed, started) ==
  IF Len(missed) > 0 THEN savePendingEvents(started)
  ELSE IF loaded.changed
  THEN [events |-> loaded.events, deletedEvents |-> loaded.deletedEvents]
  ELSE document

----------------------------------------------------------------------------
(* Inputs the environment offers *)

ProfileInputs ==
  {[exists |-> TRUE, enabled |-> TRUE, timingMode |-> "before",
    offsetMs |-> 45 * MINUTE, repeatMode |-> "indefinite", repeatCount |-> 0],
   [exists |-> TRUE, enabled |-> TRUE, timingMode |-> "after",
    offsetMs |-> 15 * MINUTE, repeatMode |-> "indefinite", repeatCount |-> 0],
   [exists |-> TRUE, enabled |-> FALSE, timingMode |-> "before",
    offsetMs |-> 45 * MINUTE, repeatMode |-> "indefinite", repeatCount |-> 0]}

OverrideInputs ==
  {[set |-> TRUE, eventStartsAt |-> 90 * MINUTE, other |-> FALSE],
   [set |-> TRUE, eventStartsAt |-> NoTime, other |-> TRUE]}

(* start times of the events the user creates by hand *)
(* the start times recordManualEvent is called with, an invalid one among  *)
(* them, and the groups, one of them not known                             *)
ManualTimes == {NoTime, 30 * MINUTE, 60 * MINUTE}

ManualGroups == Groups \cup {"g0"}

(* the event id createEventFn returns for the start time it is called with *)
RemoteEventId(eventStartsAt) == <<"evt", eventStartsAt>>

RemoteEvent(t) == [id |-> RemoteEventId(t), startsAtUtc |-> t, title |-> ProfileTitle]

UpcomingInputs == {<<>>, <<RemoteEvent(60 * MINUTE), RemoteEvent(90 * MINUTE)>>}

PublishResults == {"ok", "rateLimit", "error"}

----------------------------------------------------------------------------
(* Initial state: initializeAutomation has loaded an empty pending store   *)
(* and an automation state in which each profile has been activated by an  *)
(* event the user created by hand; the profiles themselves reach the       *)
(* engine with the first updatePendingEventsForProfile.                    *)

LoadedAutomationState ==
  [k \in Profiles |->
     [eventsCreated |-> 0, activationStartsAt |-> 30 * MINUTE, lastSuccess |-> NoTime]]

Init ==
  /\ now = 0
  /\ profilesRef = [k \in Profiles |-> NoProfile]
  /\ objs = <<>>
  /\ pendingEvents = <<>>
  /\ deletedEvents = <<>>
  /\ automationState = LoadedAutomationState
  /\ timers = {}
  /\ groups = [g \in Groups |->
                 [history |-> <<>>, backoffIndex |-> 0, lockUntil |-> NoTime]]
  /\ queue = <<>>
  /\ processing = FALSE
  /\ processTimeout = NoTime
  /\ runs = <<>>
  /\ succeeded = {}
  /\ streak = [g \in Groups |-> 0]
  /\ calls = 0
  /\ lastOp = NoOp
  /\ disk = EmptyDocument
  /\ initialized = TRUE
  /\ initMissed = <<>>

----------------------------------------------------------------------------
(* Steps *)

NothingDue ==
  /\ \A t \in timers : t.due > now
  /\ processTimeout = NoTime \/ processTimeout > now
  /\ \A i \in DOMAIN runs : runs[i].stage = "spacing" => runs[i].due > now

(* the clock advances once every callback that is due has run *)
Tick ==
  /\ now < MaxTicks * TickMs
  /\ NothingDue
  /\ Engine([Here EXCEPT !.now = now + TickMs])

(* a setTimeout callback of scheduleJob or scheduleRetry runs *)
TimerFire ==
  \E t \in timers :
    /\ t.due <= now
    /\ LET s == [Here EXCEPT !.timers = @ \ {t}]
       IN Engine(IF t.kind = "recheck" THEN scheduleJob(s, t.obj)
                 ELSE executeAutomatedPost(s, t.obj))

(* the setTimeout callback of processQueue runs *)
ProcessTimeoutFire ==
  /\ processTimeout # NoTime
  /\ processTimeout <= now
  /\ Engine(processQueue([Here EXCEPT !.processTimeout = NoTime]))

(* createEventFn settles and executeAutomatedPostInternal runs to its end; *)
(* processQueue goes on to its 100 ms wait                                 *)
PublishReturn ==
  \E i \in DOMAIN runs : \E result \in PublishResults :
    /\ runs[i].stage = "publish"
    /\ LET o == runs[i].obj
           s == [Here EXCEPT !.runs[i] = SpacingRun(Here)]
       IN Engine(CASE result = "ok" ->
                        onPublishOk(s, o, RemoteEventId(runs[i].start))
                   [] result = "rateLimit" -> onPublishRateLimit(s, o)
                   [] OTHER -> onPublishError(s, o))

(* the 100 ms wait of processQueue ends and its loop goes on *)
SpacingDone ==
  \E i \in DOMAIN runs :
    /\ runs[i].stage = "spacing"
    /\ runs[i].due <= now
    /\ Engine(processLoop([Here EXCEPT !.runs = RemoveAt(@, i)]))

UpdatePendingForProfile ==
  \E k \in Profiles : \E profile \in ProfileInputs :
    Control(updatePendingEventsForProfile(Here, k[1], k[2], profile),
            "UpdatePendingForProfile", TRUE)

(* the profile store drops a profile; the engine sees it through profilesRef *)
DeleteProfile ==
  \E k \in Profiles :
    /\ profilesRef[k].exists
    /\ Control([Here EXCEPT !.profilesRef[k] = NoProfile], "DeleteProfile", TRUE)

PurgeProfile ==
  \E k \in Profiles :
    Control(purgeProfilePendingEvents(Here, k[1], k[2]), "PurgeProfile", TRUE)

RecordManualEvent ==
  \E g \in ManualGroups : \E key \in ProfileKeys : \E t \in ManualTimes :
    Control(recordManualEvent(Here, g, key, t), "RecordManualEvent",
            recordManualEventAccepts(Here, g, key, t))

ApplyOverrides ==
  \E i \in DOMAIN pendingEvents : \E overrides \in OverrideInputs :
    Control(updatePendingEventOverrides(Here, objs[pendingEvents[i]].id, overrides),
            "ApplyOverrides", TRUE)

ActOnMissedPostNow ==
  \E i \in DOMAIN pendingEvents :
    LET o == pendingEvents[findIndex(Here, objs[pendingEvents[i]].id)]
    IN Control(handleMissedPostNow(Here, o), "postNow",
               ~PostNowRefused(objs[o].status))

ActOnMissedReschedule ==
  \E i \in DOMAIN pendingEvents :
    LET o == pendingEvents[findIndex(Here, objs[pendingEvents[i]].id)]
    IN Control(handleMissedReschedule(Here, o), "reschedule",
               ~RescheduleRefused(Here, o))

ActOnMissedCancel ==
  \E i \in DOMAIN pendingEvents :
    Control(handleMissedCancel(Here, findIndex(Here, objs[pendingEvents[i]].id)),
            "cancel", TRUE)

RestoreDeleted ==
  \E k \in Profiles :
    Control(restoreDeletedEvents(Here, k[1], k[2]), "RestoreDeleted",
            Len(OfProfile(Here, deletedEvents, k[1], k[2])) = 0 \/ profilesRef[k].exists)

ReconcilePublished ==
  \E g \in Groups : \E upcomingEvents \in UpcomingInputs :
    Control(reconcilePublishedEvents(Here, g, upcomingEvents),
            "ReconcilePublished", TRUE)

CancelAllJobs == Control(cancelAllJobs(Here), "CancelAllJobs", TRUE)

Next ==
  \/ Tick
  \/ TimerFire
  \/ ProcessTimeoutFire
  \/ PublishReturn
  \/ SpacingDone
  \/ UpdatePendingForProfile
  \/ DeleteProfile
  \/ PurgeProfile
  \/ RecordManualEvent
  \/ ApplyOverrides
  \/ ActOnMissedPostNow
  \/ ActOnMissedReschedule
  \/ ActOnMissedCancel
  \/ RestoreDeleted
  \/ ReconcilePublished
  \/ CancelAllJobs

Spec == Init /\ [][Next]_vars

(* The engine at a moment when the target has had nine events created in   *)
(* the running hour and the records of those events have been purged.      *)
BusyHistory == [i \in 1..(EVENT_HOURLY_LIMIT - 1) |-> 0]

InitBusy ==
  /\ now = 0
  /\ profilesRef = [k \in Profiles |-> NoProfile]
  /\ objs = <<>>
  /\ pendingEvents = <<>>
  /\ deletedEvents = <<>>
  /\ automationState = LoadedAutomationState
  /\ timers = {}
  /\ groups = [g \in Groups |->
                 [history |-> BusyHistory, backoffIndex |-> 0, lockUntil |-> NoTime]]
  /\ queue = <<>>
  /\ processing = FALSE
  /\ processTimeout = NoTime
  /\ runs = <<>>
  /\ succeeded = {}
  /\ streak = [g \in Groups |-> 0]
  /\ calls = 0
  /\ lastOp = NoOp
  /\ disk = EmptyDocument
  /\ initialized = TRUE
  /\ initMissed = <<>>

SpecBusy == InitBusy /\ [][Next]_vars

----------------------------------------------------------------------------
(* The start of the engine on a stored document *)

(* records as a file written by this or an earlier version may hold them *)
Stored60 == NewPendingEvent("g1", "p1", 60 * MINUTE, 15 * MINUTE)

Stored90 == NewPendingEvent("g1", "p1", 90 * MINUTE, 45 * MINUTE)

(* the 01:00 slot moved to 01:30 by the user *)
StoredMoved ==
  [Stored60 EXCEPT !.eventStartsAt = 90 * MINUTE,
                   !.scheduledPublishTime = 45 * MINUTE,
                   !.manualOverrides =
                      [set |-> TRUE, eventStartsAt |-> 90 * MINUTE, other |-> FALSE]]

(* an id of the time before deterministic ids: its last part is no number *)
LegacyId == <<"legacy", NoTime>>

StoredEvents ==
  {Stored60,
   Stored90,
   StoredMoved,
   [Stored60 EXCEPT !.status = "cancelled"],
   [Stored90 EXCEPT !.status = "deleted", !.deletedAt = TRUE],
   [Stored60 EXCEPT !.status = "published", !.eventId = RemoteEventId(60 * MINUTE)],
   [Stored60 EXCEPT !.status = "published"],
   [Stored60 EXCEPT !.id = LegacyId, !.slotKey = NoKey, !.status = "",
                    !.scheduledPublishTime = NoTime],
   [Stored90 EXCEPT !.status = "queued", !.queuedAt = TRUE],
   [StoredMoved EXCEPT !.eventStartsAt = NoTime]}

StoredDeleted ==
  {[Stored60 EXCEPT !.status = "deleted", !.deletedAt = TRUE],
   [Stored90 EXCEPT !.status = "deleted", !.deletedAt = TRUE],
   [StoredMoved EXCEPT !.status = "deleted", !.deletedAt = TRUE],
   [StoredMoved EXCEPT !.status = "cancelled"]}

MaxStoredEvents == 3

Documents ==
  {[events |-> ev, deletedEvents |-> del] :
     ev \in UNION {[1..n -> StoredEvents] : n \in 0..MaxStoredEvents},
     del \in {<<>>} \cup {<<d>> : d \in StoredDeleted}}

LoadTimes == {0, 30 * MINUTE, 45 * MINUTE, 75 * MINUTE}

InitLoad ==
  /\ now \in LoadTimes
  /\ profilesRef \in [Profiles -> ProfileInputs \cup {NoProfile}]
  /\ objs = <<>>
  /\ pendingEvents = <<>>
  /\ deletedEvents = <<>>
  /\ automationState = LoadedAutomationState
  /\ timers = {}
  /\ groups = [g \in Groups |->
                 [history |-> <<>>, backoffIndex |-> 0, lockUntil |-> NoTime]]
  /\ queue = <<>>
  /\ processing = FALSE
  /\ processTimeout = NoTime
  /\ runs = <<>>
  /\ succeeded = {}
  /\ streak = [g \in Groups |-> 0]
  /\ calls = 0
  /\ lastOp = NoOp
  /\ disk \in Documents
  /\ initialized = FALSE
  /\ initMissed = <<>>

(* initializeAutomation(config), loaded being what loadPendingEvents left *)
InitializeFrom(loaded, started) ==
  /\ Commit(started)
  /\ lastOp' = [op |-> "initializeAutomation", ok |-> TRUE]
  /\ disk' = diskAfterInitialize(disk, loaded, missedAtInitialize(loaded, now), started)
  /\ initialized' = TRUE
  /\ initMissed' = missedAtInitialize(loaded, now)

InitializeLoaded(loaded) == InitializeFrom(loaded, initializeAutomation(Here, loaded))

InitializeAutomation ==
  /\ ~initialized
  /\ InitializeLoaded(loadPendingEvents(disk, now, profilesRef))

(* the application quits and is started again: the process state is gone,  *)
(* the file stays; taken before any call that writes the file              *)
Restart ==
  /\ initialized
  /\ calls = 0
  /\ Commit([Here EXCEPT !.objs = <<>>, !.pendingEvents = <<>>, !.deletedEvents = <<>>,
                         !.timers = {}, !.queue = <<>>, !.processing = FALSE,
                         !.processTimeout = NoTime, !.runs = <<>>])
  /\ lastOp' = NoOp
  /\ initialized' = FALSE
  /\ initMissed' = <<>>
  /\ UNCHANGED disk

(* the lists of upcoming events reconcilePublishedEvents is called with:   *)
(* one or two events at a start time, of the profile's title or another,   *)
(* without an id, the same event twice                                     *)
OtherEvent(t) == [id |-> <<"other", t>>, startsAtUtc |-> t, title |-> "other"]

NoIdEvent(t) == [id |-> NoEventId, startsAtUtc |-> t, title |-> ProfileTitle]

ReconcileLists ==
  {<<>>,
   <<RemoteEvent(60 * MINUTE)>>,
   <<OtherEvent(60 * MINUTE)>>,
   <<NoIdEvent(60 * MINUTE)>>,
   <<RemoteEvent(60 * MINUTE), RemoteEvent(90 * MINUTE)>>,
   <<OtherEvent(60 * MINUTE), RemoteEvent(60 * MINUTE)>>,
   <<RemoteEvent(60 * MINUTE), RemoteEvent(60 * MINUTE)>>}

ReconcileLoaded ==
  \E g \in Groups : \E upcomingEvents \in ReconcileLists :
    Control(reconcilePublishedEvents(Here, g, upcomingEvents),
            "ReconcilePublished", TRUE)

(* the start, and a user who cancels records, restores the deleted pool    *)
(* and reconciles with the events of the group                             *)
NextLoad ==
  \/ InitializeAutomation
  \/ Restart
  \/ ActOnMissedCancel
  \/ RestoreDeleted
  \/ ReconcileLoaded

SpecLoad == InitLoad /\ [][NextLoad]_vars


(* The engine started on a document written while automation of the        *)
(* profile was on, the profile being switched off since: the 01:00 slot,   *)
(* and the 01:30 slot that the user moved to 01:15.                        *)
StoredAt75 ==
  [Stored90 EXCEPT !.eventStartsAt = 75 * MINUTE,
                   !.scheduledPublishTime = 30 * MINUTE,
                   !.manualOverrides =
                      [set |-> TRUE, eventStartsAt |-> 75 * MINUTE, other |-> FALSE]]

StartedDocument == [events |-> <<Stored60, StoredAt75>>, deletedEvents |-> <<>>]

DisabledProfile ==
  [exists |-> TRUE, enabled |-> FALSE, timingMode |-> "before",
   offsetMs |-> 45 * MINUTE, repeatMode |-> "indefinite", repeatCount |-> 0]

InitStarted ==
  /\ now = 0
  /\ profilesRef = [k \in Profiles |-> DisabledProfile]
  /\ objs = <<>>
  /\ pendingEvents = <<>>
  /\ deletedEvents = <<>>
  /\ automationState = LoadedAutomationState
  /\ timers = {}
  /\ groups = [g \in Groups |->
                 [history |-> <<>>, backoffIndex |-> 0, lockUntil |-> NoTime]]
  /\ queue = <<>>
  /\ processing = FALSE
  /\ processTimeout = NoTime
  /\ runs = <<>>
  /\ succeeded = {}
  /\ streak = [g \in Groups |-> 0]
  /\ calls = 0
  /\ lastOp = NoOp
  /\ disk = StartedDocument
  /\ initialized = FALSE
  /\ initMissed = <<>>

(* the callbacks of the engine, a user who only edits pending records and *)
(* the shutdown hook                                                      *)
NextStarted ==
  \/ InitializeAutomation
  \/ Tick
  \/ TimerFire
  \/ ProcessTimeoutFire
  \/ PublishReturn
  \/ SpacingDone
  \/ ApplyOverrides
  \/ CancelAllJobs

SpecStarted == InitStarted /\ [][NextStarted]_vars
----------------------------------------------------------------------------
(* Properties *)

(* the records of pending and of the deleted pool, as object references *)
LiveRecords == pendingEvents \o deletedEvents

(* C1: in every reachable state no two distinct records of pending and the *)
(* deleted pool share a slot key, a record's slot keys being its stored    *)
(* slotKey and the key derived from its current target, profile and start. *)
C1_NoSharedSlotKey ==
  \A i, j \in DOMAIN LiveRecords :
    i # j => getPendingSlotKeys(objs[LiveRecords[i]])
               \cap getPendingSlotKeys(objs[LiveRecords[j]]) = {}

(* the calls of createEventFn that are in flight for an object *)
InFlightFor(rs, o) == {i \in DOMAIN rs : rs[i].stage = "publish" /\ rs[i].obj = o}

(* C2: status published is terminal: no step changes the status of a       *)
(* pending record that is published, and none calls createEventFn for it.  *)
C2_PublishedIsTerminal ==
  [][\A o \in Range(pendingEvents) \cap Range(pendingEvents') :
       objs[o].status = "published" =>
         /\ objs'[o].status = "published"
         /\ Cardinality(InFlightFor(runs', o)) <= Cardinality(InFlightFor(runs, o))]_vars

(* a step that is a call of updatePendingEventsForProfile *)
UpdateStep == lastOp'.op = "UpdatePendingForProfile"

(* the pending records a step has added or written to *)
Touched == {o \in Range(pendingEvents') : o \notin Range(pendingEvents) \/ objs'[o] # objs[o]}

(* C3 as the spec has it: once createEventFn has succeeded for a slot key, *)
(* no call of updatePendingEventsForProfile adds a pending record with     *)
(* that slot key, whatever ran in between.                                 *)
C3_NoRegenerationAfterSuccess ==
  [][UpdateStep =>
       \A o \in Touched : getPendingSlotKey(objs'[o]) \notin succeeded]_vars

(* the slot keys of the published records in the pending store *)
PublishedSlots ==
  UNION {getPendingSlotKeys(objs[o]) :
           o \in {q \in Range(pendingEvents) : objs[q].status = "published"}}

(* C3, amended: a call of updatePendingEventsForProfile adds no pending    *)
(* record with a slot key of a record that is in the pending store with    *)
(* status published when the call is made.                                 *)
C3_NoRegenerationWhilePublished ==
  [][UpdateStep =>
       \A o \in Touched : getPendingSlotKey(objs'[o]) \notin PublishedSlots]_vars

(* C3, witness: updatePendingEventsForProfile has just run on a store that *)
(* holds a published record whose slot the expansion generates anew, and   *)
(* the store holds no second record for that slot.                         *)
C3_Witness ==
  /\ lastOp.op = "UpdatePendingForProfile"
  /\ \E o \in Range(pendingEvents) :
       /\ objs[o].status = "published"
       /\ getPendingSlotKey(objs[o]) \in succeeded
       /\ LET e == objs[o]
              k == <<e.groupId, e.profileKey>>
              again == calculatePendingEvents(Here, e.groupId, e.profileKey,
                                              profilesRef[k], getActivationStartMs(Here, k))
          IN \E i \in DOMAIN again : getPendingSlotKey(again[i]) = getPendingSlotKey(e)
       /\ \A q \in Range(pendingEvents) \ {o} :
            getPendingSlotKeys(objs[q]) \cap getPendingSlotKeys(objs[o]) = {}

(* the successes of a target within the last hour *)
WindowCount(g) ==
  LET inWindow(ts) == ts >= now - EVENT_HOURLY_WINDOW_MS
  IN Len(SelectSeq(groups[g].history, inWindow))

(* C4: createEventFn is never called for a target at an instant when the   *)
(* target is locked (now < lockUntil) or has 10 or more successes within   *)
(* the last hour, whichever path led to the call.                          *)
C4_NoPublishWhenLimited ==
  \A i \in DOMAIN runs : runs[i].stage = "publish" => ~runs[i].limited

(* C4, witness: processQueue has stopped at a head whose target has used   *)
(* up its hourly window: the record waits in the queue, the processor has  *)
(* armed its timer and no call of createEventFn is in flight.              *)
C4_Witness ==
  /\ Len(queue) > 0
  /\ WindowCount(Head(queue).groupId) >= EVENT_HOURLY_LIMIT
  /\ ~processing
  /\ processTimeout # NoTime
  /\ \A i \in DOMAIN runs : runs[i].stage # "publish"

(* C5: in every reachable state every pending record with status          *)
(* scheduled has its publish time at least 30 minutes before its start,    *)
(* whichever operation set the publish time last.                          *)
C5_PublishLeadsStartByBuffer ==
  \A o \in Range(pendingEvents) :
    objs[o].status = "scheduled" =>
      objs[o].scheduledPublishTime <= objs[o].eventStartsAt - MIN_BUFFER_MS

(* the activation anchor of a profile in a given automation state *)
AnchorOf(state, k) == IF k \in DOMAIN state THEN state[k].activationStartsAt ELSE NoTime

(* C6 as the spec has it: in every reachable state, every pending record   *)
(* of a profile that has an activation anchor starts strictly after the    *)
(* anchor.                                                                 *)
C6_PendingStartsAfterAnchor ==
  \A o \in Range(pendingEvents) :
    LET anchor == AnchorOf(automationState, <<objs[o].groupId, objs[o].profileKey>>)
    IN anchor # NoTime => objs[o].eventStartsAt > anchor

(* C6, amended: every record that updatePendingEventsForProfile or         *)
(* restoreDeletedEvents puts into the pending store belongs to a profile   *)
(* that has an anchor when the call returns, and starts strictly after it. *)
C6_AddedStartsAfterAnchor ==
  [][lastOp'.op \in {"UpdatePendingForProfile", "RestoreDeleted"} =>
       \A o \in Touched :
         LET anchor == AnchorOf(automationState', <<objs'[o].groupId, objs'[o].profileKey>>)
         IN anchor # NoTime /\ objs'[o].eventStartsAt > anchor]_vars

(* C6, witness: updatePendingEventsForProfile has just filled the pending  *)
(* store of a profile whose anchor lies on a slot the pattern still        *)
(* offers: the expansion without the anchor yields that slot, and the      *)
(* store holds only records that start after the anchor.                   *)
C6_Witness ==
  /\ lastOp.op = "UpdatePendingForProfile"
  /\ \E k \in DOMAIN automationState :
       LET anchor == AnchorOf(automationState, k)
           unfiltered == calculatePendingEvents(Here, k[1], k[2], profilesRef[k], NoTime)
           mine == Range(OfProfile(Here, pendingEvents, k[1], k[2]))
       IN /\ anchor # NoTime
          /\ \E i \in DOMAIN unfiltered : unfiltered[i].eventStartsAt <= anchor
          /\ mine # {}
          /\ \A o \in mine : objs[o].status = "scheduled" /\ objs[o].eventStartsAt > anchor

(* C7: at any instant at most one call of createEventFn is in flight,      *)
(* across all targets and for every interleaving, cancelAllJobs included.  *)
C7_SingleFlight ==
  Cardinality({i \in DOMAIN runs : runs[i].stage = "publish"}) <= 1

(* the step is handleMissedEvent(id, "postNow") for the pending record o *)
PostNowStep(o) ==
  Control(handleMissedPostNow(Here, o), "postNow", ~PostNowRefused(objs[o].status))

(* C8: postNow on a record whose status is queued or published is refused: *)
(* the result is not ok, the record's status, the queue and the timers     *)
(* stay as they are and createEventFn is not called.                       *)
C8_PostNowRefusedOnQueuedOrPublished ==
  [][\A o \in Range(pendingEvents) :
       (objs[o].status \in {"queued", "published"} /\ PostNowStep(o)) =>
         /\ ~lastOp'.ok
         /\ objs'[o].status = objs[o].status
         /\ UNCHANGED <<queue, timers, runs>>]_vars

(* the record at the head of the queue, held there with no run in flight   *)
(* because its target has 10 successes within the last hour                *)
HeldByWindow(o) ==
  /\ Len(queue) > 0
  /\ o \in Range(pendingEvents)
  /\ objs[o].id = Head(queue).pendingEventId
  /\ objs[o].status \in ACTIVE_PENDING_STATUSES
  /\ WindowCount(objs[o].groupId) >= EVENT_HOURLY_LIMIT
  /\ ~processing
  /\ runs = <<>>

(* C9: after 10 successful publishes to a target within one hour, the      *)
(* 11th record of that target that comes due has status queued with        *)
(* queuedAt set, the lockUntil of the target is the oldest success of the  *)
(* window plus one hour, and the record is still in the queue.             *)
C9_EleventhIsQueuedAndLocked ==
  \A o \in Range(pendingEvents) :
    HeldByWindow(o) =>
      /\ objs[o].status = "queued"
      /\ objs[o].queuedAt
      /\ groups[objs[o].groupId].lockUntil =
           Min(Range(groups[objs[o].groupId].history)) + EVENT_HOURLY_WINDOW_MS
      /\ \E i \in DOMAIN queue : queue[i].pendingEventId = objs[o].id
(* a step in which createEventFn returned a rate-limit error for target g, *)
(* making it the streak'[g]-th such error in a row                         *)
RateLimitErrorStep(g) == streak'[g] = streak[g] + 1

(* C10: for a target whose window holds fewer than 10 successes, the n-th  *)
(* rate-limit error in a row (no successful publish to the target in       *)
(* between) locks the target for BACKOFF_SEQUENCE[min(n-1, 5)] minutes:    *)
(* 2, 4, 8, 16, 32, 60, 60, ...                                            *)
C10_BackoffLadder ==
  [][\A g \in Groups :
       (RateLimitErrorStep(g) /\ WindowCount(g) < EVENT_HOURLY_LIMIT) =>
         groups'[g].lockUntil =
           now + BACKOFF_SEQUENCE[MinOf(streak'[g] - 1, 5) + 1] * MINUTE]_vars
(* the records for which this step calls createEventFn *)
Attempted ==
  {runs'[i].obj : i \in {j \in DOMAIN runs' : runs'[j].stage = "publish"}}
    \ {runs[i].obj : i \in {j \in DOMAIN runs : runs[j].stage = "publish"}}

(* the pending records that wait in the queue after this step *)
WaitingAfter ==
  {o \in Range(pendingEvents') :
     \E i \in DOMAIN queue' : queue'[i].pendingEventId = objs'[o].id}

(* C11: within one target publish attempts follow eventStartsAt order      *)
(* among the waiting records: createEventFn is never called for a record   *)
(* while another record of the same target with a strictly earlier         *)
(* eventStartsAt is in the queue, re-queued records included.              *)
C11_AttemptsFollowStartOrder ==
  [][\A o \in Attempted : \A w \in WaitingAfter :
       objs'[w].groupId = objs'[o].groupId =>
         objs'[w].eventStartsAt >= objs'[o].eventStartsAt]_vars

(* a step that is a call of initializeAutomation *)
InitializeStep == ~initialized /\ initialized'

(* the records loadPendingEvents leaves in memory for that call *)
LoadedAtStart == loadPendingEvents(disk, now, profilesRef).events

(* the pending records that carry id after the step *)
HeldAfter(id) == {o \in Range(pendingEvents') : objs'[o].id = id}

CallsOnMissed(id) == Cardinality({j \in DOMAIN initMissed' : initMissed'[j] = id})

(* C12: after initializeAutomation every record loaded with status         *)
(* scheduled and scheduledPublishTime <= now has status missed with        *)
(* missedAt set, onMissed was called exactly once for it and it has no     *)
(* timer; every loaded scheduled record with a future publish time has     *)
(* exactly one timer.                                                      *)
C12_MissedAtStart ==
  [][InitializeStep =>
       \A i \in DOMAIN LoadedAtStart :
         LoadedAtStart[i].status = "scheduled" =>
           /\ Cardinality(HeldAfter(LoadedAtStart[i].id)) = 1
           /\ \A o \in HeldAfter(LoadedAtStart[i].id) :
                IF LoadedAtStart[i].scheduledPublishTime <= now
                THEN /\ objs'[o].status = "missed"
                     /\ objs'[o].missedAt = TRUE
                     /\ CallsOnMissed(objs'[o].id) = 1
                     /\ {t \in timers' : objs'[t.obj].id = objs'[o].id} = {}
                ELSE /\ objs'[o].status = "scheduled"
                     /\ CallsOnMissed(objs'[o].id) = 0
                     /\ Cardinality({t \in timers' : objs'[t.obj].id = objs'[o].id}) = 1]_vars

(* a start that found one record overdue exactly at its publish time and   *)
(* one record still ahead                                                  *)
C12_Witness ==
  /\ initialized
  /\ lastOp.op = "initializeAutomation"
  /\ \E o \in Range(pendingEvents) :
       /\ objs[o].status = "missed"
       /\ objs[o].scheduledPublishTime = now
       /\ objs[o].id \in Range(initMissed)
  /\ \E o \in Range(pendingEvents) :
       /\ objs[o].status = "scheduled"
       /\ \E t \in timers : t.obj = o /\ t.cur

(* the document savePendingEvents writes from what a load left in memory *)
SavedAfter(loaded) == [events |-> loaded.events, deletedEvents |-> loaded.deletedEvents]

FirstLoad == loadPendingEvents(disk, now, profilesRef)

SecondLoad == loadPendingEvents(SavedAfter(FirstLoad), now, profilesRef)

(* C19: loading is idempotent: for every stored document and a fixed       *)
(* clock, loading what a load wrote gives the same lists as the first      *)
(* load, and that second load reports no change (so it saves nothing).     *)
C19_LoadIsIdempotent ==
  ~initialized =>
    /\ SecondLoad.events = FirstLoad.events
    /\ SecondLoad.deletedEvents = FirstLoad.deletedEvents
    /\ ~SecondLoad.changed

(* the records the document holds with status deleted, in either list *)
StoredAsDeleted ==
  {r \in Range(disk.events) \cup Range(disk.deletedEvents) : r.status = "deleted"}

(* C20: after the load at start no pending record has status cancelled or  *)
(* deleted, and every record stored with status deleted (in events or in   *)
(* deletedEvents) of a known profile, with a future eventStartsAt and      *)
(* sharing no slot key with a kept pending record is exactly once in the   *)
(* deleted pool, with status deleted.                                      *)
C20_DeletedSurviveLoad ==
  ~initialized =>
    /\ \A i \in DOMAIN FirstLoad.events :
         FirstLoad.events[i].status \notin {"cancelled", "deleted"}
    /\ \A r \in StoredAsDeleted :
         ( /\ isKnownProfile(profilesRef, r.groupId, r.profileKey)
           /\ r.eventStartsAt # NoTime
           /\ r.eventStartsAt > now
           /\ Range(SlotKeyList(r)) \cap SlotKeysOfList(FirstLoad.events) = {} )
         => Cardinality({j \in DOMAIN FirstLoad.deletedEvents :
                           /\ FirstLoad.deletedEvents[j] = normalizeIdAndSlotKey(r)
                           /\ FirstLoad.deletedEvents[j].status = "deleted"}) = 1

(* C13: cancelling is final: whenever a record is in the deleted pool      *)
(* there is no live timer for its id and its id is not in the queue, in    *)
(* every interleaving, the one where the record is cancelled while its     *)
(* publish is in flight and the publish then fails included.               *)
C13_DeletedHasNoTimerNoQueue ==
  \A d \in Range(deletedEvents) :
    /\ \A t \in timers : objs[t.obj].id # objs[d].id
    /\ \A i \in DOMAIN queue : queue[i].pendingEventId # objs[d].id

(* a step that is a call of handleMissedEvent(id, "cancel") *)
CancelStep == lastOp'.op = "cancel" /\ calls' = calls + 1

(* the record the step took out of the pending list *)
Cancelled == Range(pendingEvents) \ Range(pendingEvents')

StaysActive(o) ==
  \E p \in Range(pendingEvents') :
    /\ objs'[p].groupId = objs[o].groupId
    /\ objs'[p].profileKey = objs[o].profileKey
    /\ objs'[p].status \in {"scheduled", "missed", "queued"}

(* C14: cancel takes the record out of the pending list and puts it in the *)
(* deleted pool with status deleted and deletedAt; when the profile is     *)
(* then left without a pending record of status scheduled, missed or       *)
(* queued, the profile's whole deleted pool (the record just cancelled     *)
(* included) and its automation state are removed; otherwise the other     *)
(* deleted entries and the automation state are unchanged.                 *)
C14_CancelMovesOrClears ==
  [][CancelStep =>
       /\ Cardinality(Cancelled) = 1
       /\ \A o \in Cancelled :
            IF StaysActive(o)
            THEN /\ deletedEvents' = Append(deletedEvents, o)
                 /\ objs'[o].status = "deleted"
                 /\ objs'[o].deletedAt = TRUE
                 /\ \A d \in Range(deletedEvents) : objs'[d] = objs[d]
                 /\ automationState' = automationState
            ELSE /\ \A d \in Range(deletedEvents') :
                      <<objs'[d].groupId, objs'[d].profileKey>>
                        # <<objs[o].groupId, objs[o].profileKey>>
                 /\ <<objs[o].groupId, objs[o].profileKey>> \notin DOMAIN automationState'
                 /\ \A k \in (DOMAIN automationState) \ {<<objs[o].groupId, objs[o].profileKey>>} :
                      k \in DOMAIN automationState' /\ automationState'[k] = automationState[k]]_vars

(* the last waiting record of a profile was cancelled while a published    *)
(* record of the profile stays in the pending list: pool and state gone    *)
C14_Witness ==
  /\ lastOp.op = "cancel"
  /\ deletedEvents = <<>>
  /\ DOMAIN automationState = {}
  /\ \E o \in Range(pendingEvents) : objs[o].status = "published"

(* a step that is a call of restoreDeletedEvents *)
RestoreStep == lastOp'.op = "RestoreDeleted" /\ calls' = calls + 1

(* the records the step added to the pending list *)
RestoredNow == Range(pendingEvents') \ Range(pendingEvents)

(* the pending records after the step that carry overrides or are published *)
FixedAfter ==
  {p \in Range(pendingEvents') :
     objs'[p].manualOverrides.set \/ objs'[p].status = "published"}

(* a deleted entry that fails a condition of the restore: its start is not *)
(* in the future or not after the anchor, its publish time would not be in *)
(* the future, or its slot is held by a modified or published record       *)
FailsRestore(d) ==
  LET e == objs[d]
      k == <<e.groupId, e.profileKey>>
      start == getRestoreStartMs(e)
      anchor == AnchorOf(automationState', k)
      publish == calculatePublishTime(start, profilesRef[k])
  IN \/ start = NoTime
     \/ start <= now
     \/ (anchor # NoTime /\ start <= anchor)
     \/ publish = NoTime
     \/ publish <= now
     \/ \E p \in Range(pendingEvents) :
          /\ <<objs[p].groupId, objs[p].profileKey>> = k
          /\ objs[p].manualOverrides.set \/ objs[p].status = "published"
          /\ getPendingSlotKeys(objs[p]) \cap getPendingSlotKeys(e) # {}

(* C15: after restoreDeletedEvents every restored record has status        *)
(* scheduled, an eventStartsAt after now and strictly after the anchor, a  *)
(* scheduledPublishTime after now, no deletedAt and no queuedAt, a live    *)
(* timer, a slot key that clashes with no modified or published pending    *)
(* record, and is no longer in the deleted pool; every deleted entry that  *)
(* fails one of the conditions stays in the deleted pool unchanged.        *)
C15_RestoreConditions ==
  [][RestoreStep =>
       /\ \A r \in RestoredNow :
            /\ objs'[r].status = "scheduled"
            /\ objs'[r].eventStartsAt > now
            /\ LET anchor == AnchorOf(automationState',
                                      <<objs'[r].groupId, objs'[r].profileKey>>)
               IN anchor = NoTime \/ objs'[r].eventStartsAt > anchor
            /\ objs'[r].scheduledPublishTime > now
            /\ ~objs'[r].deletedAt
            /\ ~objs'[r].queuedAt
            /\ \E t \in timers' : t.obj = r /\ t.cur
            /\ \A p \in FixedAfter \ {r} :
                 getPendingSlotKeys(objs'[p]) \cap getPendingSlotKeys(objs'[r]) = {}
            /\ \A d \in Range(deletedEvents') : d # r /\ objs'[d].id # objs'[r].id
       /\ \A d \in Range(deletedEvents) :
            FailsRestore(d) => d \in Range(deletedEvents') /\ objs'[d] = objs[d]]_vars

(* the first call after a start restored one entry of the pool the start   *)
(* had loaded and passed over another                                      *)
C15_Witness ==
  /\ initialized
  /\ calls = 1
  /\ lastOp.op = "RestoreDeleted"
  /\ Len(deletedEvents) > 0
  /\ Len(deletedEvents) < Len(disk.deletedEvents)
  /\ \E r \in Range(pendingEvents) :
       /\ objs[r].status = "scheduled"
       /\ \E i \in DOMAIN disk.deletedEvents :
            getPendingSlotKey(disk.deletedEvents[i]) = objs[r].slotKey

(* the engine state after restoreDeletedEvents for profile k *)
AfterRestore(k) == restoreDeletedEvents(Here, k[1], k[2])

(* ... and after handleMissedEvent(id, "cancel") for the restored record r *)
AfterRestoreCancel(k, r) ==
  handleMissedCancel(AfterRestore(k), findIndex(AfterRestore(k), AfterRestore(k).objs[r].id))

RecordsOf(s, refs) == [i \in DOMAIN refs |-> s.objs[refs[i]]]

AfterManual(g, key, t) == recordManualEvent(Here, g, key, t).automationState

(* C17: recordManualEvent(target, key, t) never increases                  *)
(* activationStartsAt: it sets the anchor to t only when no anchor exists  *)
(* or t is strictly earlier than the anchor, and it leaves the automation  *)
(* state unchanged when t is invalid, the target is unknown, or t is at or *)
(* after the anchor.                                                       *)
C17_ManualEventOnlyLowersAnchor ==
  initialized =>
    \A g \in ManualGroups : \A key \in ProfileKeys : \A t \in ManualTimes :
      LET anchor == AnchorOf(automationState, <<g, key>>)
      IN /\ IF \/ t = NoTime
               \/ g \notin knownGroupIds
               \/ (anchor # NoTime /\ t >= anchor)
            THEN AfterManual(g, key, t) = automationState
            ELSE /\ AnchorOf(AfterManual(g, key, t), <<g, key>>) = t
                 /\ \A k \in DOMAIN automationState :
                      k # <<g, key>> =>
                        k \in DOMAIN AfterManual(g, key, t)
                        /\ AfterManual(g, key, t)[k] = automationState[k]
         /\ anchor # NoTime =>
              /\ AnchorOf(AfterManual(g, key, t), <<g, key>>) # NoTime
              /\ AnchorOf(AfterManual(g, key, t), <<g, key>>) <= anchor

(* recordManualEvent has just set an anchor where the profile had none *)
C17_Witness ==
  /\ lastOp = [op |-> "RecordManualEvent", ok |-> TRUE]
  /\ \E k \in DOMAIN automationState : automationState[k].activationStartsAt = 60 * MINUTE

(* the pending store after one and after two calls of                      *)
(* reconcilePublishedEvents with the same list                             *)
ReconciledOnce(g, upcomingEvents) == reconcilePublishedEvents(Here, g, upcomingEvents)

ReconciledTwice(g, upcomingEvents) ==
  reconcilePublishedEvents(ReconciledOnce(g, upcomingEvents), g, upcomingEvents)

(* C18: reconcilePublishedEvents is idempotent: a second call with the     *)
(* same list of upcoming events leaves the pending store, the eventIds     *)
(* included, as the first call left it, also when the first call filled in *)
(* an eventId by start time or by title.                                   *)
C18_ReconcileIsIdempotent ==
  initialized =>
    \A g \in Groups : \A upcomingEvents \in ReconcileLists :
      RecordsOf(ReconciledTwice(g, upcomingEvents),
                ReconciledTwice(g, upcomingEvents).pendingEvents)
        = RecordsOf(ReconciledOnce(g, upcomingEvents),
                    ReconciledOnce(g, upcomingEvents).pendingEvents)

(* a call has filled in the eventId of a record that was stored as         *)
(* published without one                                                   *)
C18_Witness ==
  /\ lastOp.op = "ReconcilePublished"
  /\ \E o \in Range(pendingEvents) :
       /\ objs[o].status = "published"
       /\ objs[o].eventId # NoEventId
       /\ \E i \in DOMAIN disk.events :
            /\ disk.events[i].id = objs[o].id
            /\ disk.events[i].status = "published"
            /\ disk.events[i].eventId = NoEventId

----------------------------------------------------------------------------
(* eventsCreated against the published records *)

EventsCreated(k) == IF k \in DOMAIN automationState THEN automationState[k].eventsCreated ELSE 0

PublishedOf(k) ==
  {i \in DOMAIN pendingEvents :
     /\ objs[pendingEvents[i]].status = "published"
     /\ <<objs[pendingEvents[i]].groupId, objs[pendingEvents[i]].profileKey>> = k}

NoPublishInFlight == \A i \in DOMAIN runs : runs[i].stage # "publish"

(* C21: for every profile, whenever no publish is in flight, eventsCreated *)
(* of the profile equals the number of pending records of the profile      *)
(* whose status is published (the store starts empty).                     *)
C21_EventsCreatedCountsPublished ==
  NoPublishInFlight =>
    \A k \in Profiles : EventsCreated(k) = Cardinality(PublishedOf(k))

----------------------------------------------------------------------------
(* Transient publish failures.  The engine has been started on an empty    *)
(* store; the user switches the automation of a profile on and then only   *)
(* posts records by hand.  The remote answers each                         *)
(* call within a tick of the clock, fails every way it can until           *)
(* AcceptFrom and accepts from then on.  Timers fire, awaited calls settle *)
(* and time passes (weak fairness of the callbacks).                       *)

AcceptTicks == 2

AcceptFrom == AcceptTicks * TickMs

(* the first call of the control API switches the automation of a profile *)
(* on                                                                     *)
EnableProfile ==
  /\ calls = 0
  /\ \E k \in Profiles : \E profile \in {p \in ProfileInputs : p.enabled} :
       Control(updatePendingEventsForProfile(Here, k[1], k[2], profile),
               "UpdatePendingForProfile", TRUE)

(* createEventFn settles: any result before AcceptFrom, ok from then on *)
PublishReturnUntil ==
  \E i \in DOMAIN runs : \E result \in PublishResults :
    /\ runs[i].stage = "publish"
    /\ now >= AcceptFrom => result = "ok"
    /\ LET o == runs[i].obj
           s == [Here EXCEPT !.runs[i] = SpacingRun(Here)]
       IN Engine(CASE result = "ok" ->
                        onPublishOk(s, o, RemoteEventId(runs[i].start))
                   [] result = "rateLimit" -> onPublishRateLimit(s, o)
                   [] OTHER -> onPublishError(s, o))

(* the clock advances once every callback that is due has run; the remote *)
(* answers a call within a tick, and the clock runs on long enough for    *)
(* what the user started to end                                           *)
RetryTicks == 7

TickAnswered ==
  /\ now < RetryTicks * TickMs
  /\ NothingDue
  /\ \A i \in DOMAIN runs : runs[i].stage # "publish"
  /\ Engine([Here EXCEPT !.now = now + TickMs])

NextRetry ==
  \/ EnableProfile
  \/ TickAnswered
  \/ TimerFire
  \/ PublishReturnUntil
  \/ SpacingDone
  \/ ActOnMissedPostNow

(* what enables each callback *)
TimerDue == \E t \in timers : t.due <= now

PublishPending == \E i \in DOMAIN runs : runs[i].stage = "publish"

SpacingDue == \E i \in DOMAIN runs : runs[i].stage = "spacing" /\ runs[i].due <= now

(* Weak fairness of the clock and of the three callbacks (the wake-up of   *)
(* processQueue is never armed here: a run is always there to take up the *)
(* records that are queued).  A callback is enabled exactly when its timer *)
(* is due or its call is pending, and the weak fairness of a callback A,   *)
(* []<>~(ENABLED <<A>>_vars) \/ []<><<A>>_vars, is written with that       *)
(* condition in place of ENABLED.                                          *)
FairRetry ==
  /\ WF_vars(TickAnswered)
  /\ []<>(~TimerDue) \/ []<><<TimerFire>>_vars
  /\ []<>(~PublishPending) \/ []<><<PublishReturnUntil>>_vars
  /\ []<>(~SpacingDue) \/ []<><<SpacingDone>>_vars

SpecRetry == Init /\ [][NextRetry]_vars /\ FairRetry

RetryIds == {buildPendingEventId(k[1], k[2], t) : k \in Profiles, t \in SlotTimes}

RetryArmed(id) == \E t \in timers : t.kind = "retry" /\ objs[t.obj].id = id

PublishedId(id) ==
  \E o \in Range(pendingEvents) : objs[o].id = id /\ objs[o].status = "published"

(* the state in which createEventFn of run i has failed *)
AfterError(i) == onPublishError([Here EXCEPT !.runs[i] = SpacingRun(Here)], runs[i].obj)

(* the timers of the state, the current handle of the id overwritten *)
Overwritten(id) ==
  {IF t.cur /\ objs[t.obj].id = id THEN [t EXCEPT !.cur = FALSE] ELSE t : t \in timers}

RetryStep ==
  \A i \in DOMAIN runs :
    runs[i].stage = "publish" =>
      LET o == runs[i].obj
          after == AfterError(i)
      IN /\ objs[o].status = "scheduled"
         /\ after.objs = objs
         /\ after.queue = queue
         /\ after.timers \ Overwritten(objs[o].id) =
              {[kind |-> "retry", obj |-> o, due |-> now + 15 * MINUTE, cur |-> TRUE]}
         /\ Cardinality(after.timers) = Cardinality(timers) + 1

(* the callback of a due retry timer puts the record on the way to         *)
(* createEventFn: in the queue, or at the call itself                      *)
RetryReenters ==
  \A t \in timers :
    (t.kind = "retry" /\ t.due <= now) =>
      LET after == executeAutomatedPost([Here EXCEPT !.timers = @ \ {t}], t.obj)
      IN \/ \E q \in DOMAIN after.queue : after.queue[q].pendingEventId = objs[t.obj].id
         \/ \E r \in DOMAIN after.runs :
              after.runs[r].stage = "publish" /\ after.runs[r].obj = t.obj

(* C22: when createEventFn fails with an error that is not a rate limit,   *)
(* the record stays scheduled and is not re-queued, one retry timer is     *)
(* armed for 15 minutes later, the callback of the retry timer takes the   *)
(* record to the publish path again, and a record with a retry timer is    *)
(* eventually published when the remote accepts from some moment on and    *)
(* nobody cancels the record.                                              *)
C22_RetryUntilPublished ==
  /\ [](RetryStep /\ RetryReenters)
  /\ \A id \in RetryIds : RetryArmed(id) ~> PublishedId(id)

(* a scheduled record whose retry timer, its only timer, is due *)
C22_Witness ==
  \E t \in timers :
    /\ t.kind = "retry"
    /\ t.due = 30 * MINUTE
    /\ now = 30 * MINUTE
    /\ objs[t.obj].status = "scheduled"
    /\ \A u \in timers : u.obj = t.obj => u = t

----------------------------------------------------------------------------
(* A record whose profile is gone when it is to be published *)

ProfileGone(o) == ~profilesRef[<<objs[o].groupId, objs[o].profileKey>>].exists

(* C23: when the profile of a pending record no longer exists at publish   *)
(* time, executeAutomatedPostInternal sets the record's status to          *)
(* cancelled and saves it, does not call createEventFn, arms no timer and  *)
(* does not put the record in the queue.                                   *)
C23_ProfileMissingCancels ==
  \A o \in Range(pendingEvents) :
    ProfileGone(o) =>
      LET after == executeAutomatedPostInternal(Here, o)
      IN /\ after.objs = [objs EXCEPT ![o].status = "cancelled"]
         /\ \E i \in DOMAIN pendingEvents :
              /\ pendingEvents[i] = o
              /\ savePendingEvents(after).events[i].status = "cancelled"
         /\ after.runs = Append(runs, SpacingRun(Here))
         /\ after.timers = timers
         /\ after.queue = queue
         /\ after.pendingEvents = pendingEvents
         /\ after.automationState = automationState
         /\ after.groups = groups

(* the processor has cancelled a record of a profile that is gone: nothing *)
(* was published, and no timer and no queue entry is left for the record   *)
C23_Witness ==
  \E o \in Range(pendingEvents) :
    /\ objs[o].status = "cancelled"
    /\ ProfileGone(o)
    /\ lastOp = NoOp
    /\ succeeded = {}
    /\ \A t \in timers : t.obj # o
    /\ \A q \in DOMAIN queue : queue[q].pendingEventId # objs[o].id
    /\ \A r \in DOMAIN runs : runs[r].stage # "publish"

----------------------------------------------------------------------------
(* Calls of the control API with invalid input *)

(* ids the user may pass, in pending or not, and actions, one unknown *)
CallIds == RetryIds \cup {buildPendingEventId("g1", "p1", 120 * MINUTE), NoKey}

CallActions == {"postNow", "reschedule", "cancel", "snooze"}

(* an object that is not an array *)
NotAList == [i \in {0} |-> RemoteEvent(60 * MINUTE)]

InvalidMissedCall(id, action) ==
  \/ findIndex(Here, id) = 0
  \/ action = "snooze"
  \/ /\ action = "reschedule"
     /\ LET profile == profilesRef[<<objs[pendingEvents[findIndex(Here, id)]].groupId, objs[pendingEvents[findIndex(Here, id)]].profileKey>>]
        IN ~profile.exists \/ ~profile.enabled

InvalidCallsRefused ==
  /\ \A id \in CallIds : \A action \in CallActions :
       InvalidMissedCall(id, action) =>
         /\ handleMissedRefuses(Here, id, action)
         /\ handleMissedEvent(Here, id, action) = Here
  /\ \A id \in CallIds : \A overrides \in OverrideInputs :
       findIndex(Here, id) = 0 => updatePendingEventOverrides(Here, id, overrides) = Here
  /\ \A upcomingEvents \in UpcomingInputs :
       reconcilePublishedEvents(Here, NoGroup, upcomingEvents) = Here
  /\ \A g \in Groups \cup {NoGroup} : reconcilePublishedEvents(Here, g, NotAList) = Here
  /\ \A g \in Groups \cup {NoGroup} : \A key \in ProfileKeys \cup {NoGroup} :
       (g = NoGroup \/ key = NoGroup) => purgeProfilePendingEvents(Here, g, key) = Here

(* a call of handleMissedEvent that returned ok: false has changed nothing *)
RefusedMissedStep ==
  (lastOp'.ok = FALSE /\ lastOp'.op \in {"postNow", "reschedule", "cancel"})
    => UNCHANGED <<objs, pendingEvents, deletedEvents, automationState, timers, queue,
                   processing, processTimeout, runs, groups>>

(* C24: a control operation called with invalid input returns ok: false    *)
(* and leaves pending, the deleted pool, the automation state, the timers  *)
(* and the queue as they are: handleMissedEvent and                        *)
(* updatePendingEventOverrides with an id that is not in pending,          *)
(* handleMissedEvent with an unknown action, a reschedule for a record     *)
(* whose profile is gone or has automation off, reconcilePublishedEvents   *)
(* without a group or with something that is no array, and                 *)
(* purgeProfilePendingEvents without group or profile key.                 *)
C24_InvalidInputChangesNothing == []InvalidCallsRefused /\ [][RefusedMissedStep]_vars

(* a reschedule was refused for a record whose profile is gone; the record *)
(* is scheduled and its timer is live as before                            *)
C24_Witness ==
  /\ lastOp = [op |-> "reschedule", ok |-> FALSE]
  /\ \E o \in Range(pendingEvents) :
       /\ objs[o].status = "scheduled"
       /\ ~profilesRef[<<objs[o].groupId, objs[o].profileKey>>].exists
       /\ \E t \in timers : t.obj = o /\ t.cur

----------------------------------------------------------------------------
(* The frame of updatePendingEventsForProfile *)

(* the groups and profile keys the call is made with: the profile that has *)
(* records, a second profile of the group, and a group that is not known   *)
UpdateGroups == Groups \cup {"g0"}

UpdateKeys == ProfileKeys \cup {"p2"}

OfOther(o, g, key) == ~(objs[o].groupId = g /\ objs[o].profileKey = key)

Protected(o) == objs[o].manualOverrides.set \/ objs[o].status = "published"

(* the slot keys of the modified, published and deleted records of g, key *)
TakenSlots(g, key) ==
  UNION {getPendingSlotKeys(objs[o]) :
           o \in {x \in Range(pendingEvents) : ~OfOther(x, g, key) /\ Protected(x)}
                   \cup {x \in Range(deletedEvents) : ~OfOther(x, g, key)}}

TimersOf(state, refs) == {t \in state.timers : t.obj \in refs}

StaysPending(o, g, key) == OfOther(o, g, key) \/ Protected(o)

UpdateFrame(g, key, profile) ==
  LET after == updatePendingEventsForProfile(Here, g, key, profile)
      stay(o) == StaysPending(o, g, key)
      stays == SelectSeq(pendingEvents, stay)
      others == {o \in Range(pendingEvents) \cup Range(deletedEvents) : OfOther(o, g, key)}
      modified == {o \in Range(pendingEvents) : objs[o].manualOverrides.set}
      added == {after.pendingEvents[i] : i \in (Len(stays) + 1)..Len(after.pendingEvents)}
  IN ~after.overflow =>
       /\ Len(after.pendingEvents) >= Len(stays)
       /\ SubSeq(after.pendingEvents, 1, Len(stays)) = stays
       /\ \A o \in Range(stays) : after.objs[o] = objs[o]
       /\ TimersOf(after, modified) = TimersOf(Here, modified)
       /\ TimersOf(after, others) = TimersOf(Here, others)
       /\ \A i \in DOMAIN deletedEvents :
            OfOther(deletedEvents[i], g, key) =>
              /\ deletedEvents[i] \in Range(after.deletedEvents)
              /\ after.objs[deletedEvents[i]] = objs[deletedEvents[i]]
       /\ \A o \in added : getPendingSlotKey(after.objs[o]) \notin TakenSlots(g, key)
       /\ ~profile.enabled => added = {}

(* C25: updatePendingEventsForProfile(target, key, profile) never removes, *)
(* modifies or re-times a pending record that carries manualOverrides or   *)
(* has status published, never touches records, deleted entries or timers  *)
(* of other profiles, never adds a record whose slot key is a slot key of  *)
(* a modified, published or deleted record of the profile, and adds        *)
(* nothing when automation is disabled.                                    *)
C25_UpdateFrame ==
  \A g \in UpdateGroups : \A key \in UpdateKeys : \A profile \in ProfileInputs :
    UpdateFrame(g, key, profile)

(* an update has been made of a profile that has a modified record with a  *)
(* live timer and a record the update generated                            *)
C25_Witness ==
  /\ lastOp = [op |-> "UpdatePendingForProfile", ok |-> TRUE]
  /\ \E o \in Range(pendingEvents) :
       objs[o].manualOverrides.set /\ \E t \in timers : t.obj = o
  /\ \E o \in Range(pendingEvents) : ~Protected(o) /\ objs[o].status = "scheduled"

----------------------------------------------------------------------------
(* Overrides that move the start of a record *)

(* updatePendingEventOverrides recomputes the publish time of record o *)
Recomputes(o, overrides) ==
  /\ objs[o].status \in {"scheduled", "missed"}
  /\ overrides.eventStartsAt # NoTime
  /\ overrides.eventStartsAt # objs[o].eventStartsAt
  /\ profilesRef[<<objs[o].groupId, objs[o].profileKey>>].exists
  /\ profilesRef[<<objs[o].groupId, objs[o].profileKey>>].enabled

OverrideOutcome(o, overrides) ==
  LET after == updatePendingEventOverrides(Here, objs[o].id, overrides)
      e == after.objs[o]
      live == {t \in after.timers : t.obj = o}
  IN IF e.scheduledPublishTime <= now
     THEN /\ e.status = "missed"
          /\ e.missedAt
          /\ live = {}
          /\ \A q \in DOMAIN after.queue : after.queue[q].pendingEventId # e.id
     ELSE /\ e.status = "scheduled"
          /\ Cardinality(live) = 1
          /\ \A t \in live : t.due = e.scheduledPublishTime

(* C26: for a record with status scheduled or missed, an override of       *)
(* eventStartsAt whose recomputed publish time is <= now leaves the record *)
(* missed with missedAt set, without live timer and without queue entry;   *)
(* when the recomputed publish time is in the future the record ends       *)
(* scheduled with exactly one live timer, due at the new publish time.     *)
C26_OverrideReclassifies ==
  \A i \in DOMAIN pendingEvents : \A overrides \in OverrideInputs :
    LET o == pendingEvents[findIndex(Here, objs[pendingEvents[i]].id)]
    IN Recomputes(o, overrides) => OverrideOutcome(o, overrides)

----------------------------------------------------------------------------
(* The engine copy in src/electron/core/date-utils.js (lines 175-1621).    *)
(*                                                                         *)
(* Its rate limiter, queueEventPost, processQueue, resolveEventDetails,    *)
(* cancelJob, executeAutomatedPost, scheduleRetry and the slot expansion   *)
(* of calculatePendingEvents (called without minEventStartMs) have the     *)
(* same text as in part_002, and the definitions above serve both.  The    *)
(* copy keeps, per profile, the start millis of the events that were       *)
(* published (publishedEventTimes) in place of an activation anchor, does  *)
(* not normalise what it loads, and its postNow calls the publish worker   *)
(* directly.  A profile state the copy has not created is absent from      *)
(* automationState.                                                        *)

ONE_HOUR_MS == 60 * 60 * 1000

MaxCoreCalls == 4

(* automationState.profiles[key] || { eventsCreated: 0, publishedEventTimes: [] } *)
coreNewProfileState == [eventsCreated |-> 0, publishedEventTimes |-> {}, lastSuccess |-> NoTime]

coreProfileState(s, k) ==
  IF k \in DOMAIN s.automationState THEN s.automationState[k] ELSE coreNewProfileState

coreCreateProfileState(s, k) ==
  IF k \in DOMAIN s.automationState
  THEN s
  ELSE [s EXCEPT !.automationState =
          [x \in (DOMAIN @) \cup {k} |-> IF x = k THEN coreNewProfileState ELSE @[x]]]

coreScheduleJob(s, o) ==
  LET delay == s.objs[o].scheduledPublishTime - s.now
  IN IF delay <= 0
     THEN [s EXCEPT !.objs[o].status = "missed", !.objs[o].missedAt = TRUE]
     ELSE IF delay > ONE_DAY_MS
          THEN setJobTimer(s, "recheck", o, s.now + ONE_HOUR_MS)
          ELSE setJobTimer(s, "exec", o, s.now + delay)

RECURSIVE coreScheduleAll(_, _)
coreScheduleAll(s, refs) ==
  IF Len(refs) = 0 THEN s ELSE coreScheduleAll(coreScheduleJob(s, Head(refs)), Tail(refs))

incrementEventsCreated(s, groupId, profileKey) ==
  LET k == <<groupId, profileKey>>
  IN [coreCreateProfileState(s, k) EXCEPT !.automationState[k].eventsCreated = @ + 1]

trackPublishedEventTime(s, groupId, profileKey, eventStartsAt) ==
  LET k == <<groupId, profileKey>>
  IN [coreCreateProfileState(s, k) EXCEPT
        !.automationState[k].publishedEventTimes = @ \cup {eventStartsAt}]

(* executeAutomatedPostInternal of the copy after createEventFn returned ok *)
coreOnPublishOk(s, o) ==
  LET e == s.objs[o]
      k == <<e.groupId, e.profileKey>>
      st == coreCreateProfileState(recordEventCreation(s, e.groupId), k)
  IN [st EXCEPT
        !.objs[o].status = "published",
        !.automationState[k].eventsCreated = @ + 1,
        !.automationState[k].lastSuccess = s.now,
        !.automationState[k].publishedEventTimes = @ \cup {e.eventStartsAt},
        !.succeeded = @ \cup getPendingSlotKeys(e)
           \cup {CreatedEvent(e.groupId, e.profileKey, RemoteEventId(e.eventStartsAt))},
        !.streak[e.groupId] = 0]

(* the filter of updatePendingEventsForProfile over the generated events *)
coreFilterNewEvents(newEvents, modifiedEventIds, deletedEventIds, publishedEventTimes) ==
  LET fresh(e) == /\ e.id \notin modifiedEventIds
                  /\ e.id \notin deletedEventIds
                  /\ e.eventStartsAt \notin publishedEventTimes
  IN SelectSeq(newEvents, fresh)

coreUpdatePendingEventsForProfile(s, groupId, profileKey, profile) ==
  LET k == <<groupId, profileKey>>
      s1 == [s EXCEPT !.profilesRef[k] = profile]
      profileState == coreProfileState(s1, k)
      existingEvents == OfProfile(s1, s1.pendingEvents, groupId, profileKey)
      modifiedEventIds ==
        {s1.objs[o].id : o \in {x \in Range(existingEvents) : s1.objs[x].manualOverrides.set}}
      deletedEventIds ==
        {s1.objs[o].id : o \in Range(OfProfile(s1, s1.deletedEvents, groupId, profileKey))}
      auto(o) == ~s1.objs[o].manualOverrides.set
      s2 == cancelAll(s1, IdsOf(s1, SelectSeq(existingEvents, auto)))
      kept(o) == ~(/\ s2.objs[o].groupId = groupId
                   /\ s2.objs[o].profileKey = profileKey
                   /\ ~s2.objs[o].manualOverrides.set)
      s3 == [s2 EXCEPT !.pendingEvents = SelectSeq(@, kept)]
      newEvents == calculatePendingEvents(coreCreateProfileState(s3, k),
                                          groupId, profileKey, profile, NoTime)
      filteredNewEvents == coreFilterNewEvents(newEvents, modifiedEventIds, deletedEventIds,
                                               profileState.publishedEventTimes)
      alloc == Allocate(Collect(s3), filteredNewEvents, <<>>)
      s4 == [alloc.s EXCEPT !.pendingEvents = @ \o alloc.refs]
  IN IF ~profile.enabled THEN s3
     ELSE IF Len(existingEvents) = 0 /\ profileState.eventsCreated = 0 THEN s3
     ELSE coreScheduleAll(s4, alloc.refs)

coreUpdatePendingEventOverrides(s, pendingEventId, overrides) ==
  LET idx == findIndex(s, pendingEventId)
      o == s.pendingEvents[idx]
      e == s.objs[o]
      previousEventStartsAt == e.eventStartsAt
      s1 == [s EXCEPT
               !.objs[o].manualOverrides = overrides,
               !.objs[o].eventStartsAt =
                  IF overrides.eventStartsAt # NoTime THEN overrides.eventStartsAt ELSE @]
      profile == s.profilesRef[<<e.groupId, e.profileKey>>]
      newPublishTime ==
        OverridePublishTime(profile, e, overrides.eventStartsAt, previousEventStartsAt)
      s2 == [s1 EXCEPT !.objs[o].scheduledPublishTime = newPublishTime]
  IN IF idx = 0 THEN s
     ELSE IF ~(overrides.eventStartsAt # NoTime
               /\ overrides.eventStartsAt # previousEventStartsAt) THEN s1
     ELSE IF ~(profile.exists /\ profile.enabled) THEN s1
     ELSE IF newPublishTime <= s.now
     THEN cancelJob([s2 EXCEPT !.objs[o].status = "missed",
                               !.objs[o].missedAt = TRUE], pendingEventId)
     ELSE IF e.status = "missed"
     THEN coreScheduleJob([s2 EXCEPT !.objs[o].status = "scheduled",
                                     !.objs[o].missedAt = FALSE], o)
     ELSE coreScheduleJob(cancelJob(s2, pendingEventId), o)

(* handleMissedEvent of the copy, action "postNow": the record is marked   *)
(* processing and executeAutomatedPostInternal is awaited; the call is     *)
(* suspended at createEventFn unless the details cannot be resolved        *)
corePostNowRefused(status) == status \in {"queued", "published"}

PostNowRun(s, o) == [PublishRun(s, o) EXCEPT !.stage = "postNow"]

coreHandleMissedPostNow(s, o) ==
  LET marked == [s EXCEPT !.objs[o].status = "processing"]
  IN IF corePostNowRefused(s.objs[o].status)
     THEN s
     ELSE IF ~resolveEventDetails(marked, s.objs[o].id)
          THEN [marked EXCEPT !.objs[o].status = "cancelled"]
          ELSE [marked EXCEPT !.runs = Append(@, PostNowRun(marked, o))]

coreHandleMissedReschedule(s, o) ==
  LET e == s.objs[o]
      profile == s.profilesRef[<<e.groupId, e.profileKey>>]
  IN IF RescheduleRefused(s, o)
     THEN s
     ELSE coreScheduleJob(
            [s EXCEPT !.objs[o].scheduledPublishTime = ReschedulePublishTime(s, profile, e),
                      !.objs[o].status = "scheduled",
                      !.objs[o].missedAt = FALSE], o)

coreHandleMissedCancel(s, idx) ==
  LET o == s.pendingEvents[idx]
      s1 == cancelJob(s, s.objs[o].id)
  IN [s1 EXCEPT !.pendingEvents = RemoveAt(@, idx),
                !.objs[o].status = "deleted",
                !.objs[o].deletedAt = TRUE,
                !.deletedEvents = Append(@, o)]

(* the loop of restoreDeletedEvents of the copy, the restored events taken *)
(* out of deletedEvents as they are restored                               *)
RECURSIVE coreRestoreLoop(_, _, _)
coreRestoreLoop(s, todo, profile) ==
  IF Len(todo) = 0
  THEN s
  ELSE LET d == Head(todo)
           event == s.objs[d]
           newPublishTime == calculatePublishTime(event.eventStartsAt, profile)
           others(x) == x # d
           restored ==
             coreScheduleJob(
               [s EXCEPT !.objs[d].scheduledPublishTime = newPublishTime,
                         !.objs[d].status = "scheduled",
                         !.objs[d].deletedAt = FALSE,
                         !.pendingEvents = Append(@, d),
                         !.deletedEvents = SelectSeq(@, others)], d)
       IN coreRestoreLoop(
            IF /\ event.eventStartsAt > s.now
               /\ newPublishTime # NoTime
               /\ newPublishTime > s.now
            THEN restored ELSE s,
            Tail(todo), profile)

coreRestoreDeletedEvents(s, groupId, profileKey) ==
  LET deletedForProfile == OfProfile(s, s.deletedEvents, groupId, profileKey)
      profile == s.profilesRef[<<groupId, profileKey>>]
  IN IF Len(deletedForProfile) = 0 \/ ~profile.exists
     THEN s
     ELSE coreRestoreLoop(s, deletedForProfile, profile)

(* The copy after initializeAutomation found neither file. *)
InitCore ==
  /\ now = 0
  /\ profilesRef = [k \in Profiles |-> NoProfile]
  /\ objs = <<>>
  /\ pendingEvents = <<>>
  /\ deletedEvents = <<>>
  /\ automationState = <<>>
  /\ timers = {}
  /\ groups = [g \in Groups |->
                 [history |-> <<>>, backoffIndex |-> 0, lockUntil |-> NoTime]]
  /\ queue = <<>>
  /\ processing = FALSE
  /\ processTimeout = NoTime
  /\ runs = <<>>
  /\ succeeded = {}
  /\ streak = [g \in Groups |-> 0]
  /\ calls = 0
  /\ lastOp = NoOp
  /\ disk = EmptyDocument
  /\ initialized = TRUE
  /\ initMissed = <<>>

CoreControl(s, op, ok) ==
  /\ calls < MaxCoreCalls
  /\ Commit([s EXCEPT !.calls = @ + 1])
  /\ lastOp' = [op |-> op, ok |-> ok]
  /\ UNCHANGED <<disk, initialized, initMissed>>

CoreTimerFire ==
  \E t \in timers :
    /\ t.due <= now
    /\ LET s == [Here EXCEPT !.timers = @ \ {t}]
       IN Engine(IF t.kind = "recheck" THEN coreScheduleJob(s, t.obj)
                 ELSE executeAutomatedPost(s, t.obj))

(* createEventFn settles for a record the queue processor is publishing *)
CorePublishReturn ==
  \E i \in DOMAIN runs : \E result \in PublishResults :
    /\ runs[i].stage = "publish"
    /\ LET o == runs[i].obj
           s == [Here EXCEPT !.runs[i] = SpacingRun(Here)]
       IN Engine(CASE result = "ok" -> coreOnPublishOk(s, o)
                   [] result = "rateLimit" -> onPublishRateLimit(s, o)
                   [] OTHER -> onPublishError(s, o))

(* createEventFn settles for a postNow, and handleMissedEvent returns *)
CorePostNowReturn ==
  \E i \in DOMAIN runs : \E result \in PublishResults :
    /\ runs[i].stage = "postNow"
    /\ LET o == runs[i].obj
           s == [Here EXCEPT !.runs = RemoveAt(@, i)]
       IN Engine(CASE result = "ok" -> coreOnPublishOk(s, o)
                   [] result = "rateLimit" -> onPublishRateLimit(s, o)
                   [] OTHER -> onPublishError(s, o))

CoreUpdatePendingForProfile ==
  \E k \in Profiles : \E profile \in ProfileInputs :
    CoreControl(coreUpdatePendingEventsForProfile(Here, k[1], k[2], profile),
                "UpdatePendingForProfile", TRUE)

CoreIncrementEventsCreated ==
  \E k \in Profiles :
    CoreControl(incrementEventsCreated(Here, k[1], k[2]), "incrementEventsCreated", TRUE)

CoreTrackPublishedEventTime ==
  \E k \in Profiles : \E t \in SlotTimes :
    CoreControl(trackPublishedEventTime(Here, k[1], k[2], t),
                "trackPublishedEventTime", TRUE)

CoreApplyOverrides ==
  \E i \in DOMAIN pendingEvents : \E overrides \in OverrideInputs :
    CoreControl(coreUpdatePendingEventOverrides(Here, objs[pendingEvents[i]].id, overrides),
                "ApplyOverrides", TRUE)

CoreActOnMissedPostNow ==
  \E i \in DOMAIN pendingEvents :
    LET o == pendingEvents[findIndex(Here, objs[pendingEvents[i]].id)]
    IN CoreControl(coreHandleMissedPostNow(Here, o), "postNow",
                   ~corePostNowRefused(objs[o].status))

CoreActOnMissedReschedule ==
  \E i \in DOMAIN pendingEvents :
    LET o == pendingEvents[findIndex(Here, objs[pendingEvents[i]].id)]
    IN CoreControl(coreHandleMissedReschedule(Here, o), "reschedule",
                   ~RescheduleRefused(Here, o))

CoreActOnMissedCancel ==
  \E i \in DOMAIN pendingEvents :
    CoreControl(coreHandleMissedCancel(Here, findIndex(Here, objs[pendingEvents[i]].id)),
                "cancel", TRUE)

CoreRestoreDeleted ==
  \E k \in Profiles :
    CoreControl(coreRestoreDeletedEvents(Here, k[1], k[2]), "RestoreDeleted",
                Len(OfProfile(Here, deletedEvents, k[1], k[2])) = 0 \/ profilesRef[k].exists)

NextCore ==
  \/ Tick
  \/ CoreTimerFire
  \/ ProcessTimeoutFire
  \/ CorePublishReturn
  \/ CorePostNowReturn
  \/ SpacingDone
  \/ CoreUpdatePendingForProfile
  \/ CoreIncrementEventsCreated
  \/ CoreTrackPublishedEventTime
  \/ CoreApplyOverrides
  \/ CoreActOnMissedPostNow
  \/ CoreActOnMissedReschedule
  \/ CoreActOnMissedCancel
  \/ CoreRestoreDeleted

SpecCore == InitCore /\ [][NextCore]_vars

----------------------------------------------------------------------------
(* C27: in the copy that tracks publishedEventTimes, once the start millis *)
(* of a slot is in the publishedEventTimes of a profile, no call of        *)
(* updatePendingEventsForProfile, restoreDeletedEvents or                  *)
(* updatePendingEventOverrides puts a scheduled, missed or queued record   *)
(* with that start time into the pending store of that profile.            *)

MaterializingOps == {"UpdatePendingForProfile", "RestoreDeleted", "ApplyOverrides"}

(* the start time was tracked as published for the profile of the record *)
TrackedAsPublished(e) ==
  /\ <<e.groupId, e.profileKey>> \in DOMAIN automationState
  /\ e.eventStartsAt \in automationState[<<e.groupId, e.profileKey>>].publishedEventTimes

(* the record was in the pending store, active and with that start time *)
AlreadyPending(e) ==
  \E p \in Range(pendingEvents) :
    /\ objs[p].id = e.id
    /\ objs[p].eventStartsAt = e.eventStartsAt
    /\ objs[p].status \in ACTIVE_PENDING_STATUSES

MaterializesNoPublishedSlot ==
  lastOp'.op \in MaterializingOps =>
    \A o \in Range(pendingEvents') :
      (objs'[o].status \in ACTIVE_PENDING_STATUSES /\ TrackedAsPublished(objs'[o]))
        => AlreadyPending(objs'[o])

C27_PublishedSlotNotMaterialized == [][MaterializesNoPublishedSlot]_vars

----------------------------------------------------------------------------
(* C28: in the copy whose postNow marks the record processing and calls    *)
(* the publish worker directly, when handleMissedEvent(postNow) returns    *)
(* the record is published, queued or scheduled and is not left            *)
(* processing; and after a failure of postNow that is not a rate limit,    *)
(* the retry timer that fires 15 minutes later calls createEventFn for the *)
(* record again.                                                           *)

PostNowsOf(rs, o) ==
  Cardinality({i \in DOMAIN rs : rs[i].stage = "postNow" /\ rs[i].obj = o})

(* createEventFn settled for a postNow of o and handleMissedEvent returned *)
PostNowReturnStep(o) == PostNowsOf(runs', o) < PostNowsOf(runs, o)

PostNowSettles ==
  \A o \in Range(pendingEvents') :
    (o \in DOMAIN objs /\ PostNowReturnStep(o) /\ PostNowsOf(runs', o) = 0)
      => objs'[o].status \in {"published", "queued", "scheduled"}

(* the callback of a retry timer of a record that postNow left processing  *)
(* runs while the processor is idle and nothing holds the target back      *)
RetryOfPostNowStep(t) ==
  /\ t.kind = "retry"
  /\ t.due <= now
  /\ timers' = timers \ {t}
  /\ lastOp' = NoOp
  /\ now' = now
  /\ objs[t.obj].status = "processing"
  /\ PostNowsOf(runs, t.obj) = 0
  /\ t.obj \in Range(pendingEvents)
  /\ resolveEventDetails(Here, objs[t.obj].id)
  /\ ~processing
  /\ queue = <<>>
  /\ ~isGroupRateLimited(Here, objs[t.obj].groupId)

RetryPublishes ==
  \A t \in timers :
    RetryOfPostNowStep(t) =>
      \E i \in DOMAIN runs' : runs'[i].stage = "publish" /\ runs'[i].obj = t.obj

C28_PostNowSettlesAndRetries == [][PostNowSettles /\ RetryPublishes]_vars

----------------------------------------------------------------------------
(* C29: every onMissedEvent and onEventCreated notification is delivered   *)
(* after the save that writes the change it reports: when                  *)
(* initializeAutomation or scheduleJob calls onMissedEvent for a record,   *)
(* the file holds the record as missed, and when                           *)
(* executeAutomatedPostInternal calls onEventCreated, the file holds it as *)
(* published.                                                              *)

(* the file at the moment the first loop of initializeAutomation calls     *)
(* onMissedEvent: as loadPendingEvents left it, the save of the loop being *)
(* still to come                                                           *)
fileAtOnMissedOfInitialize(document, loaded) ==
  IF loaded.changed THEN SavedAfter(loaded) ELSE document

(* the file at the moment scheduleJob calls onMissedEvent *)
fileAtOnMissedOfScheduleJob(s, o) == savePendingEvents(scheduleJob(s, o))

(* the file at the moment executeAutomatedPostInternal calls onEventCreated *)
fileAtOnEventCreated(s, o, eventId) == savePendingEvents(onPublishOk(s, o, eventId))

HoldsAs(file, id, status) ==
  \E i \in DOMAIN file.events : file.events[i].id = id /\ file.events[i].status = status

InitializeNotifiesAfterSave ==
  InitializeStep =>
    \A i \in DOMAIN initMissed' :
      HoldsAs(fileAtOnMissedOfInitialize(disk, FirstLoad), initMissed'[i], "missed")

ScheduleJobNotifiesAfterSave ==
  \A o \in Range(pendingEvents) :
    objs[o].scheduledPublishTime <= now =>
      HoldsAs(fileAtOnMissedOfScheduleJob(Here, o), objs[o].id, "missed")

PublishNotifiesAfterSave ==
  \A o \in Range(pendingEvents) :
    HoldsAs(fileAtOnEventCreated(Here, o, RemoteEventId(objs[o].eventStartsAt)),
            objs[o].id, "published")

C29_NotificationsFollowSave ==
  /\ [][InitializeNotifiesAfterSave]_vars
  /\ [](initialized => ScheduleJobNotifiesAfterSave /\ PublishNotifiesAfterSave)

----------------------------------------------------------------------------
(* The queue under rate limits.  The target has had nine events created in *)
(* the running hour; the user switches the automation of a profile on and  *)
(* posts records by hand while the remote is failing, so that the clock of *)
(* the model runs on long enough for the hourly window to clear and for    *)
(* what was queued to be served.  The remote answers each call within a    *)
(* tick,                                                                   *)
(* fails every way it can, rate limits among them, until AcceptFrom and    *)
(* accepts from then on.  Timers fire, awaited calls settle and time       *)
(* passes: weak fairness of the clock and of the callbacks, written as in  *)
(* FairRetry, the wake-up of processQueue among them.                      *)

PostNowInTime ==
  /\ now <= AcceptFrom
  /\ ActOnMissedPostNow

NextQueue ==
  \/ EnableProfile
  \/ TickAnswered
  \/ TimerFire
  \/ ProcessTimeoutFire
  \/ PublishReturnUntil
  \/ SpacingDone
  \/ PostNowInTime

WakeUpDue == processTimeout # NoTime /\ processTimeout <= now

FairQueue ==
  /\ FairRetry
  /\ []<>(~WakeUpDue) \/ []<><<ProcessTimeoutFire>>_vars

SpecQueue == InitBusy /\ [][NextQueue]_vars /\ FairQueue

(* C30: whenever the rate-limit queue is not empty, a run of processQueue  *)
(* is active or its wake-up timer is pending; and, timers firing and locks *)
(* expiring, every record that is in the queue is eventually taken off it, *)
(* the records re-queued from inside a run after a rate-limit error among  *)
(* them.                                                                   *)
InQueue(id) == \E i \in DOMAIN queue : queue[i].pendingEventId = id

QueueIsServed == Len(queue) > 0 => (runs # <<>> \/ processTimeout # NoTime)

C30_QueueLiveness ==
  /\ []QueueIsServed
  /\ \A id \in RetryIds : InQueue(id) ~> ~InQueue(id)

(* a record that was re-queued after a rate-limit error waits in the queue *)
(* for the wake-up timer, no run being active                              *)
C30_Witness ==
  /\ runs = <<>>
  /\ processTimeout # NoTime
  /\ \E o \in Range(pendingEvents) :
       /\ objs[o].status = "queued"
       /\ objs[o].queuedAt
       /\ InQueue(objs[o].id)

----------------------------------------------------------------------------
(* The wake-up of the processor when the head of the queue must wait *)

(* a step in which processQueue has armed its setTimeout, as the state is  *)
(* when processQueue has returned                                          *)
WakeUpArmed == processTimeout' # NoTime /\ processTimeout' # processTimeout

HeadWaits == Len(queue) > 0 /\ isGroupRateLimited(Here, Head(queue).groupId)

(* the end of the wait of the target at the head of the queue *)
HeadWaitEnd == now + getRateLimitWaitMs(Here, Head(queue).groupId)

(* C31: when the processor finds the head of the queue rate-limited it     *)
(* stops, and when it has returned its one wake-up timer is due at the end *)
(* of the wait of the head's target (lockUntil, or the expiry of the       *)
(* oldest entry of the window) plus 100 ms, and not earlier.               *)
C31_WakeUpAtEndOfWait ==
  [][(WakeUpArmed /\ HeadWaits') =>
       (~processing' /\ processTimeout' = HeadWaitEnd' + SPACING_MS)]_vars

----------------------------------------------------------------------------
(* Records that are days away.  The engine starts on a document with one   *)
(* scheduled record of a profile that publishes 45 minutes before the      *)
(* start; the clock advances exactly to the instant the next timer is due, *)
(* the remote accepts every call.                                          *)

MaxDelayDays == 8

HOUR == 60 * MINUTE

RecheckPublishTimes ==
  {d * ONE_DAY_MS + r : d \in 0..MaxDelayDays, r \in {0, HOUR, 9 * HOUR}} \ {0}

FarRecord(publishTime) ==
  NewPendingEvent("g1", "p1", publishTime + 45 * MINUTE, publishTime)

TimedBefore ==
  [exists |-> TRUE, enabled |-> TRUE, timingMode |-> "before",
   offsetMs |-> 45 * MINUTE, repeatMode |-> "indefinite", repeatCount |-> 0]

InitRecheck ==
  /\ now = 0
  /\ profilesRef = [k \in Profiles |-> TimedBefore]
  /\ objs = <<>>
  /\ pendingEvents = <<>>
  /\ deletedEvents = <<>>
  /\ automationState = LoadedAutomationState
  /\ timers = {}
  /\ groups = [g \in Groups |->
                 [history |-> <<>>, backoffIndex |-> 0, lockUntil |-> NoTime]]
  /\ queue = <<>>
  /\ processing = FALSE
  /\ processTimeout = NoTime
  /\ runs = <<>>
  /\ succeeded = {}
  /\ streak = [g \in Groups |-> 0]
  /\ calls = 0
  /\ lastOp = NoOp
  /\ disk \in {[events |-> <<FarRecord(p)>>, deletedEvents |-> <<>>] :
                 p \in RecheckPublishTimes}
  /\ initialized = FALSE
  /\ initMissed = <<>>

(* the instants at which a setTimeout of the engine is due *)
DueInstants ==
  {t.due : t \in timers}
    \cup {runs[i].due : i \in {j \in DOMAIN runs : runs[j].stage = "spacing"}}
    \cup (IF processTimeout # NoTime THEN {processTimeout} ELSE {})

(* the clock advances exactly to the next instant a timer is due *)
TimerElapses ==
  /\ NothingDue
  /\ DueInstants # {}
  /\ \A i \in DOMAIN runs : runs[i].stage # "publish"
  /\ Engine([Here EXCEPT !.now = Min(DueInstants)])

NextRecheck ==
  \/ InitializeAutomation
  \/ TimerElapses
  \/ TimerFire
  \/ PublishReturnUntil
  \/ SpacingDone

FairRecheck ==
  /\ WF_vars(TimerElapses)
  /\ []<>initialized \/ []<><<InitializeAutomation>>_vars
  /\ []<>(~TimerDue) \/ []<><<TimerFire>>_vars
  /\ []<>(~PublishPending) \/ []<><<PublishReturnUntil>>_vars
  /\ []<>(~SpacingDue) \/ []<><<SpacingDone>>_vars

SpecRecheck == InitRecheck /\ [][NextRecheck]_vars /\ FairRecheck

(* the timers a step has armed *)
ArmedNow == {t \in timers' : t.cur} \ timers

(* the timer scheduleJob arms for a record that is delay away *)
TierTimer(t, delay) ==
  IF delay > 7 * 24 * HOUR THEN t.kind = "recheck" /\ t.due - now' = 24 * HOUR
  ELSE IF delay > 2 * 24 * HOUR THEN t.kind = "recheck" /\ t.due - now' = 8 * HOUR
  ELSE IF delay > 24 * HOUR THEN t.kind = "recheck" /\ t.due - now' = 2 * HOUR
  ELSE t.kind = "exec" /\ t.due - now' = delay

ArmsByTier ==
  \A t \in ArmedNow :
    LET delay == objs'[t.obj].scheduledPublishTime - now'
    IN /\ delay > 0
       /\ TierTimer(t, delay)
       /\ t.kind = "recheck" => t.due - now' < delay

(* a step that hands a record to the processor does so at the record's     *)
(* publish instant                                                         *)
EnqueuesAtPublishTime ==
  \A i \in DOMAIN runs' :
    (runs'[i].stage = "publish" /\ runs = <<>>) =>
      now' = objs'[runs'[i].obj].scheduledPublishTime

NeverMissed == \A o \in Range(pendingEvents) : objs[o].status # "missed"

StillWaiting == \E o \in Range(pendingEvents) : objs[o].status = "scheduled"

AttemptedAtPublishTime ==
  \E o \in Range(pendingEvents) :
    /\ objs[o].status = "published"
    /\ automationState[<<objs[o].groupId, objs[o].profileKey>>].lastSuccess
         = objs[o].scheduledPublishTime

(* C32: for a scheduled record with delay = publish - now > 0 the          *)
(* scheduler arms a recheck of 24 h when delay > 7 days, of 8 h when       *)
(* delay > 2 days, of 2 h when delay > 1 day, and otherwise an exact timer *)
(* of length delay that enqueues the record; a recheck interval is smaller *)
(* than the remaining delay, and with a clock that advances exactly by the *)
(* timer length the record is never marked missed and is handed to the     *)
(* processor at its publish instant after finitely many rechecks.          *)
C32_TieredRecheck ==
  /\ [][ArmsByTier /\ EnqueuesAtPublishTime]_vars
  /\ []NeverMissed
  /\ StillWaiting ~> AttemptedAtPublishTime

(* a record first seen more than seven days ahead is within a day of its   *)
(* publish time, with its exact timer armed                                *)
C32_Witness ==
  \E t \in timers :
    /\ t.kind = "exec"
    /\ t.due = objs[t.obj].scheduledPublishTime
    /\ t.due > 7 * ONE_DAY_MS
    /\ t.due - now = 23 * HOUR
    /\ objs[t.obj].status = "scheduled"

----------------------------------------------------------------------------
(* The dedup of normalizePendingStore *)

(* the pending records the dedup loop of the load at start is given *)
DedupInput ==
  Kept([i \in DOMAIN disk.events |->
          normalizePendingEvent(disk.events[i], now, profilesRef).event])

KeysOf(event) == Range(SlotKeyList(event))

PendingKeysDisjoint ==
  \A i, j \in DOMAIN FirstLoad.events :
    i # j => KeysOf(FirstLoad.events[i]) \cap KeysOf(FirstLoad.events[j]) = {}

DeletedKeysDisjoint ==
  /\ \A i \in DOMAIN FirstLoad.deletedEvents : \A j \in DOMAIN FirstLoad.events :
       KeysOf(FirstLoad.deletedEvents[i]) \cap KeysOf(FirstLoad.events[j]) = {}
  /\ \A i, j \in DOMAIN FirstLoad.deletedEvents :
       i # j => KeysOf(FirstLoad.deletedEvents[i]) \cap KeysOf(FirstLoad.deletedEvents[j]) = {}

(* a record that was given to the dedup has no higher priority than every  *)
(* kept record it collides with                                            *)
KeptHasMaximalPriority ==
  \A i \in DOMAIN DedupInput : \A j \in DOMAIN FirstLoad.events :
    KeysOf(DedupInput[i]) \cap KeysOf(FirstLoad.events[j]) # {} =>
      getPendingEventPriority(DedupInput[i]) <= getPendingEventPriority(FirstLoad.events[j])

(* C33: after the normalization of the load no two kept pending records    *)
(* have intersecting slot-key sets, no deleted entry shares a slot key     *)
(* with a kept pending record or with another deleted entry, and a kept    *)
(* record has the maximal priority among the pending inputs it collides    *)
(* with, also when a record carries two keys that collide with two         *)
(* different records.                                                      *)
C33_DedupAfterLoad ==
  ~initialized => PendingKeysDisjoint /\ DeletedKeysDisjoint /\ KeptHasMaximalPriority

----------------------------------------------------------------------------
(* One event per slot.  The user does what the control API allows, apart   *)
(* from reconciling with the events of the group (which may drop a         *)
(* published record) and from the shutdown hook.  The wake-up timer of the *)
(* processor is never armed in these runs: a lock of the target has        *)
(* expired when the 100 ms wait of the processor ends.                     *)

NextOnce ==
  \/ Tick
  \/ TimerFire
  \/ PublishReturn
  \/ SpacingDone
  \/ UpdatePendingForProfile
  \/ DeleteProfile
  \/ PurgeProfile
  \/ RecordManualEvent
  \/ ApplyOverrides
  \/ ActOnMissedPostNow
  \/ ActOnMissedReschedule
  \/ ActOnMissedCancel
  \/ RestoreDeleted

SpecOnce == Init /\ [][NextOnce]_vars

(* the step in which createEventFn of run i returns ok: the worker records *)
(* the creation in the history of the target                               *)
ReturnsOk(i) ==
  /\ runs[i].stage = "publish"
  /\ Len(runs') >= i
  /\ runs'[i].stage = "spacing"
  /\ Len(groups'[objs[runs[i].obj].groupId].history)
       = Len(groups[objs[runs[i].obj].groupId].history) + 1

(* C34: createEventFn returns success at most once for a target, profile   *)
(* and event start, whatever control operations arrive while a call is     *)
(* pending (a cancel followed by a restore, an update of the profile, an   *)
(* override, a postNow), as long as no reconcile drops a published record. *)
C34_OneSuccessPerSlot ==
  [][\A i \in DOMAIN runs :
       ReturnsOk(i) =>
         CreatedEvent(objs[runs[i].obj].groupId, objs[runs[i].obj].profileKey,
                      RemoteEventId(runs[i].start)) \notin succeeded]_vars

----------------------------------------------------------------------------
(* The status of the records of the deleted pool *)

DeletedPoolIsDeleted == \A o \in Range(deletedEvents) : objs[o].status = "deleted"

PendingIsNotDeleted == \A o \in Range(pendingEvents) : objs[o].status # "deleted"

(* C35: in every reachable state every record of the deleted pool has      *)
(* status deleted and no pending record has status deleted, also when a    *)
(* record is cancelled while its createEventFn call is pending and the     *)
(* call then returns ok, a rate-limit error or another error.              *)
C35_DeletedPoolStatus == DeletedPoolIsDeleted /\ PendingIsNotDeleted

----------------------------------------------------------------------------
(* Records waiting for the rate limit to clear *)

Waiting(o) ==
  \/ \E q \in DOMAIN queue : queue[q].pendingEventId = objs[o].id
  \/ \E r \in DOMAIN runs : runs[r].stage # "spacing" /\ runs[r].obj = o
  \/ \E t \in timers : t.obj = o /\ t.kind \in {"exec", "retry", "recheck"}

(* C36: no queued record is stranded: in every reachable state, also right *)
(* after initializeAutomation has loaded a document that holds records     *)
(* with status queued, every pending record with status queued is in the   *)
(* queue of the rate limiter, is the record being executed, or has a live  *)
(* timer that will enqueue it.                                             *)
C36_NoQueuedRecordStranded ==
  initialized =>
    \A o \in Range(pendingEvents) : objs[o].status = "queued" => Waiting(o)

----------------------------------------------------------------------------
(* Two targets.  The engine starts on a document with a record of group g1 *)
(* and a record of group g2 that are to be published at the same time; the *)
(* clock advances to the instant the next timer is due, and the remote     *)
(* rejects at most one call in a row per target with a rate-limit error.   *)

Targets == {"g1", "g2"}

TargetRecords ==
  <<NewPendingEvent("g1", "p1", 60 * MINUTE, 15 * MINUTE),
    NewPendingEvent("g2", "p1", 90 * MINUTE, 15 * MINUTE)>>

InitTargets ==
  /\ now = 0
  /\ profilesRef = [k \in Targets \X ProfileKeys |->
                      IF k[1] = "g1" THEN TimedBefore
                      ELSE [TimedBefore EXCEPT !.offsetMs = 75 * MINUTE]]
  /\ objs = <<>>
  /\ pendingEvents = <<>>
  /\ deletedEvents = <<>>
  /\ automationState = <<>>
  /\ timers = {}
  /\ groups = [g \in Targets |->
                 [history |-> <<>>, backoffIndex |-> 0, lockUntil |-> NoTime]]
  /\ queue = <<>>
  /\ processing = FALSE
  /\ processTimeout = NoTime
  /\ runs = <<>>
  /\ succeeded = {}
  /\ streak = [g \in Targets |-> 0]
  /\ calls = 0
  /\ lastOp = NoOp
  /\ disk = [events |-> TargetRecords, deletedEvents |-> <<>>]
  /\ initialized = FALSE
  /\ initMissed = <<>>

(* createEventFn settles: ok, or a rate-limit error when the last call for *)
(* the target was not rejected                                             *)
PublishReturnOnce ==
  \E i \in DOMAIN runs : \E result \in {"ok", "rateLimit"} :
    /\ runs[i].stage = "publish"
    /\ result = "rateLimit" => streak[objs[runs[i].obj].groupId] = 0
    /\ LET o == runs[i].obj
           s == [Here EXCEPT !.runs[i] = SpacingRun(Here)]
       IN Engine(IF result = "ok"
                 THEN onPublishOk(s, o, RemoteEventId(runs[i].start))
                 ELSE onPublishRateLimit(s, o))

NextTargets ==
  \/ InitializeAutomation
  \/ TimerElapses
  \/ TimerFire
  \/ ProcessTimeoutFire
  \/ PublishReturnOnce
  \/ SpacingDone

SpecTargets == InitTargets /\ [][NextTargets]_vars

(* the processor has stopped *)
ProcessorStopped == ~processing /\ runs = <<>>

Admissible(g) == ~isGroupRateLimited(Here, g)

(* a record of the queue whose target is admissible waits behind a head    *)
(* of another target that is rate-limited                                  *)
HeldUpByOtherTarget(q) ==
  /\ q \in DOMAIN queue
  /\ queue[q].groupId # Head(queue).groupId
  /\ ~Admissible(Head(queue).groupId)
  /\ Admissible(queue[q].groupId)

(* C37: rate limiting is isolated per target: a lock or a full hourly      *)
(* window on one target never delays the publish attempt of a queued       *)
(* record of another target that is itself admissible, also when the       *)
(* record at the head of the queue belongs to the limited target.          *)
C37_TargetsAreIsolated ==
  ProcessorStopped => \A q \in DOMAIN queue : ~HeldUpByOtherTarget(q)

----------------------------------------------------------------------------
(* Profiles whose automation was switched off *)

(* the last updatePendingEventsForProfile of the profile had automation    *)
(* disabled (profilesRef is written by that function only)                 *)
SwitchedOff(k) == profilesRef[k].exists /\ ~profilesRef[k].enabled

OfProfileKey(o, k) == <<objs[o].groupId, objs[o].profileKey>> = k

QuietWhenSwitchedOff ==
  \A k \in Profiles :
    SwitchedOff(k) =>
      /\ \A t \in timers : ~OfProfileKey(t.obj, k)
      /\ \A q \in DOMAIN queue : <<queue[q].pendingEventId[1], queue[q].pendingEventId[2]>> # k

(* the engine calls createEventFn in the step, not on behalf of a postNow  *)
(* of the user                                                             *)
CallsCreateEventFn(o) ==
  /\ lastOp'.op # "postNow"
  /\ \E i \in DOMAIN runs' : runs'[i].stage = "publish" /\ runs'[i].obj = o
  /\ \A i \in DOMAIN runs : ~(runs[i].stage = "publish" /\ runs[i].obj = o)

NoCallWhenSwitchedOff ==
  \A k \in Profiles :
    SwitchedOff(k) => \A o \in DOMAIN objs : OfProfileKey(o, k) => ~CallsCreateEventFn(o)

(* C38: after updatePendingEventsForProfile was called for a profile with  *)
(* automation.enabled = false, the engine makes no external publish call   *)
(* for a record of the profile and keeps no live timer and no queue entry  *)
(* for it until a later update enables the automation again, records with  *)
(* manualOverrides included.                                               *)
C38_SwitchedOffIsQuiet == []QuietWhenSwitchedOff /\ [][NoCallWhenSwitchedOff]_vars

----------------------------------------------------------------------------
(* Fixed repeat count.  The profile the user saves repeats a fixed number  *)
(* of times (automation.repeatMode "count"); with the two slots of the     *)
(* pattern the count that binds is one.  The user updates the profile and  *)
(* overrides records, the engine publishes.                                *)

CountProfileInputs ==
  {[exists |-> TRUE, enabled |-> TRUE, timingMode |-> "before",
    offsetMs |-> 45 * MINUTE, repeatMode |-> "count", repeatCount |-> 1],
   [exists |-> TRUE, enabled |-> TRUE, timingMode |-> "after",
    offsetMs |-> 15 * MINUTE, repeatMode |-> "count", repeatCount |-> 1]}

UpdateCountProfile ==
  \E k \in Profiles : \E profile \in CountProfileInputs :
    Control(updatePendingEventsForProfile(Here, k[1], k[2], profile),
            "UpdatePendingForProfile", TRUE)

NextCount ==
  \/ Tick
  \/ TimerFire
  \/ PublishReturn
  \/ SpacingDone
  \/ UpdateCountProfile
  \/ ApplyOverrides

SpecCount == Init /\ [][NextCount]_vars

(* the records of a profile that are still to be published *)
ToPublishOf(k) ==
  {i \in DOMAIN pendingEvents :
     /\ objs[pendingEvents[i]].status \in {"scheduled", "missed", "queued"}
     /\ <<objs[pendingEvents[i]].groupId, objs[pendingEvents[i]].profileKey>> = k}

(* C39: in repeatMode count, eventsCreated plus the number of the pending  *)
(* records of the profile with status scheduled, missed or queued never    *)
(* exceeds repeatCount, and so the number of successful automated          *)
(* publishes never exceeds repeatCount.                                    *)
C39_RepeatCountRespected ==
  \A k \in Profiles :
    (profilesRef[k].exists /\ profilesRef[k].repeatMode = "count") =>
      /\ EventsCreated(k) + Cardinality(ToPublishOf(k)) <= profilesRef[k].repeatCount
      /\ EventsCreated(k) <= profilesRef[k].repeatCount

----------------------------------------------------------------------------
(* Publish times moved later.  The user updates profiles, overrides        *)
(* records and reschedules them; nobody asks for a record to be posted now *)
(* and createEventFn fails with a rate-limit error at most, so that no     *)
(* 15-minute retry is armed.  The wake-up timer of the processor is never  *)
(* armed in these runs.                                                    *)

NextLater ==
  \/ Tick
  \/ TimerFire
  \/ PublishReturnOnce
  \/ SpacingDone
  \/ UpdatePendingForProfile
  \/ ApplyOverrides
  \/ ActOnMissedReschedule

SpecLater == Init /\ [][NextLater]_vars

(* the publish time of the record has come *)
PublishTimeReached(o) == objs'[o].scheduledPublishTime <= now'

(* C40: createEventFn is never called for a record before the current     *)
(* scheduledPublishTime of that record, postNow and the 15-minute retry    *)
(* aside; this holds after a reschedule or an override moved the publish   *)
(* time later while the record was waiting in the queue or had an armed    *)
(* timer.                                                                  *)
C40_NoCallBeforePublishTime ==
  [][\A o \in DOMAIN objs : CallsCreateEventFn(o) => PublishTimeReached(o)]_vars
====
